---- MODULE Spec2Model ----
(***************************************************************************)
(* Semantic receipt / transaction search of penny-pal: the similarity      *)
(* engine, the receipt-item matcher, receipt reconstruction, the /api/chat *)
(* dispatch and account-name resolution.                                   *)
(*                                                                         *)
(* Numbers.  Similarities are IEEE doubles in the source; here they are    *)
(* fixed-point integers in thousandths (1000 = 1.0).  NaN is a separate    *)
(* value for which every comparison is false.  Money is in cents.          *)
(* Text.  Strings are sequences of one-character strings so that           *)
(* toLowerCase, === and includes are computed, not assumed.                *)
(***************************************************************************)
EXTENDS Integers, Sequences, FiniteSets, TLC

VARIABLES receiptItems, transactions, accounts, clock, ret, chat, chatMessages, runs

vars == <<receiptItems, transactions, accounts, clock, ret, chat, chatMessages, runs>>

(***************************************************************************)
(* Bounds of the model                                                     *)
(***************************************************************************)
MaxItems == 3

(***************************************************************************)
(* Numeric helpers                                                         *)
(***************************************************************************)
NaN == -999999

NULL == <<0 - 1>>

Abs(x) == IF x < 0 THEN 0 - x ELSE x

IsNaN(x) == x = NaN

\* x >= y on doubles: false as soon as one side is NaN
GreaterEq(x, y) == ~IsNaN(x) /\ ~IsNaN(y) /\ x >= y

RECURSIVE SqrtSearch(_, _, _)
SqrtSearch(n, lo, hi) ==
  IF lo >= hi THEN lo
  ELSE LET mid == (lo + hi + 1) \div 2
       IN IF mid * mid <= n THEN SqrtSearch(n, mid, hi)
          ELSE SqrtSearch(n, lo, mid - 1)

\* Math.sqrt(n) in thousandths, n a small non-negative integer (n <= 2147, so
\* that the squares of the search stay within 32 bits)
SqrtOf(n) == SqrtSearch(n * 1000000, 0, IF n < 46 THEN 1000 * (n + 1) ELSE 46340)

\* the roots of the norms that occur, computed once
SqrtTable == [n \in 0..32 |-> SqrtOf(n)]

MathSqrt(n) == IF n \in DOMAIN SqrtTable THEN SqrtTable[n] ELSE SqrtOf(n)

RECURSIVE SumTo(_, _, _)
SumTo(a, b, i) == IF i = 0 THEN 0 ELSE a[i] * b[i] + SumTo(a, b, i - 1)

\* zero mutant: the length guard is dropped and the shorter vector is padded
cosineSimilarityNoLengthGuard(a, b) ==
  LET n == IF Len(a) < Len(b) THEN Len(a) ELSE Len(b)
      dotProduct == SumTo(a, b, n)
      normA == SumTo(a, a, Len(a))
      normB == SumTo(b, b, Len(b))
      denom == (MathSqrt(normA) * MathSqrt(normB)) \div 1000
  IN IF denom = 0 THEN NaN ELSE (dotProduct * 1000000) \div denom

\* zero mutant: the norm of the first vector stands in for both norms
cosineSimilarityNormOfFirst(a, b) ==
  IF Len(a) # Len(b) THEN 0
  ELSE LET dotProduct == SumTo(a, b, Len(a))
           normA == SumTo(a, a, Len(a))
           denom == (MathSqrt(normA) * MathSqrt(normA)) \div 1000
       IN IF denom = 0 THEN NaN ELSE (dotProduct * 1000000) \div denom

cosineSimilarity(a, b) ==
  IF Len(a) # Len(b) THEN 0
  ELSE LET dotProduct == SumTo(a, b, Len(a))
           normA == SumTo(a, a, Len(a))
           normB == SumTo(b, b, Len(b))
           denom == (MathSqrt(normA) * MathSqrt(normB)) \div 1000
       IN IF denom = 0 THEN NaN ELSE (dotProduct * 1000000) \div denom

(***************************************************************************)
(* Text helpers                                                            *)
(***************************************************************************)
UpperLetters == <<"A", "B", "C", "D", "E", "F", "G", "H", "I", "J", "K", "L", "M",
                  "N", "O", "P", "Q", "R", "S", "T", "U", "V", "W", "X", "Y", "Z">>

LowerLetters == <<"a", "b", "c", "d", "e", "f", "g", "h", "i", "j", "k", "l", "m",
                  "n", "o", "p", "q", "r", "s", "t", "u", "v", "w", "x", "y", "z">>

LowerChar(c) ==
  IF \E i \in 1..26 : UpperLetters[i] = c
  THEN LowerLetters[CHOOSE i \in 1..26 : UpperLetters[i] = c]
  ELSE c

toLowerCase(s) == [i \in 1..Len(s) |-> LowerChar(s[i])]

\* String.prototype.includes
includes(s, t) ==
  \E k \in 0..(Len(s) - Len(t)) : \A i \in 1..Len(t) : s[k + i] = t[i]

(***************************************************************************)
(* Array.prototype.sort as V8 runs it on arrays shorter than 64 elements:  *)
(* one run is counted (a strictly descending run is reversed) and the rest *)
(* is inserted by binary insertion.  The comparator is named by kind.      *)
(***************************************************************************)
\* zero mutant: the comparator without the recency tie-break
receiptItemCompareBySimilarityOnly(a, b) == b.similarity - a.similarity

\* zero mutant: among close similarities the older row goes first
receiptItemCompareOlderFirst(a, b) ==
  LET similarityDiff == b.similarity - a.similarity
  IN IF ~IsNaN(a.similarity) /\ ~IsNaN(b.similarity) /\ Abs(similarityDiff) > 50
     THEN similarityDiff
     ELSE a.createdAt - b.createdAt

receiptItemCompare(a, b) ==
  LET similarityDiff == b.similarity - a.similarity
      \* a missing createdAt is the date 0 in the source; no row here has none
      dateA == a.createdAt
      dateB == b.createdAt
  IN IF ~IsNaN(a.similarity) /\ ~IsNaN(b.similarity) /\ Abs(similarityDiff) > 50
     THEN similarityDiff
     ELSE dateB - dateA

accountCompare(a, b) ==
  IF IsNaN(a.similarity) \/ IsNaN(b.similarity) THEN 0
  ELSE b.similarity - a.similarity

Compare(kind, a, b) ==
  IF kind = "receiptItem" THEN receiptItemCompare(a, b) ELSE accountCompare(a, b)

Reverse(s) == [i \in 1..Len(s) |-> s[Len(s) + 1 - i]]

RECURSIVE RunEnd(_, _, _, _)
\* index of the last element of the run that starts at 1 (idx is the candidate)
RunEnd(arr, kind, isDescending, idx) ==
  IF idx > Len(arr) THEN idx - 1
  ELSE LET order == Compare(kind, arr[idx], arr[idx - 1])
       IN IF (isDescending /\ order >= 0) \/ (~isDescending /\ order < 0)
          THEN idx - 1
          ELSE RunEnd(arr, kind, isDescending, idx + 1)

CountAndMakeRun(arr, kind) ==
  IF Len(arr) < 2 THEN [run |-> Len(arr), arr |-> arr]
  ELSE LET isDescending == Compare(kind, arr[2], arr[1]) < 0
           runLength == RunEnd(arr, kind, isDescending, 3)
       IN [run |-> runLength,
           arr |-> IF isDescending
                   THEN Reverse(SubSeq(arr, 1, runLength)) \o SubSeq(arr, runLength + 1, Len(arr))
                   ELSE arr]

RECURSIVE BinarySearch(_, _, _, _, _)
\* left and right are 0-based as in the source: the slot is in [left, right]
BinarySearch(arr, kind, pivot, left, right) ==
  IF left >= right THEN left
  ELSE LET mid == left + ((right - left) \div 2)
           order == Compare(kind, pivot, arr[mid + 1])
       IN IF order < 0 THEN BinarySearch(arr, kind, pivot, left, mid)
          ELSE BinarySearch(arr, kind, pivot, mid + 1, right)

RECURSIVE BinaryInsertionSort(_, _, _)
\* start is the 0-based index of the first element not yet in the sorted prefix
BinaryInsertionSort(arr, kind, start) ==
  IF start >= Len(arr) THEN arr
  ELSE LET pivot == arr[start + 1]
           left == BinarySearch(arr, kind, pivot, 0, start)
           moved == SubSeq(arr, 1, left) \o <<pivot>> \o SubSeq(arr, left + 1, start)
                      \o SubSeq(arr, start + 2, Len(arr))
       IN BinaryInsertionSort(moved, kind, start + 1)

ArraySort(arr, kind) ==
  IF Len(arr) < 2 THEN arr
  ELSE LET made == CountAndMakeRun(arr, kind)
       IN BinaryInsertionSort(made.arr, kind, made.run)

\* every order in which a select without ORDER BY may deliver the rows
DeliveryOrders(s) == {[i \in 1..Len(s) |-> s[p[i]]] : p \in Permutations(1..Len(s))}

(***************************************************************************)
(* The embedding provider.  text-embedding-3-small is a black box: one     *)
(* call either throws or answers a vector (dimension 2 here), which may be *)
(* empty or the zero vector.                                               *)
(***************************************************************************)
Vectors == {<<1, 1>>, <<3, 2>>, <<2, 1>>, <<0, 0>>}

ProviderOutcomes ==
  {[threw |-> TRUE, embedding |-> <<>>]} \cup
  {[threw |-> FALSE, embedding |-> v] : v \in Vectors \cup {<<>>}}

\* zero mutant: the catch block is missing and the provider's error escapes
generateEmbeddingRethrow(text, outcome) ==
  IF outcome.threw THEN [threw |-> TRUE, value |-> <<>>]
  ELSE [threw |-> FALSE, value |-> outcome.embedding]

\* zero mutant: a failed call answers a placeholder vector instead of []
generateEmbeddingPlaceholder(text, outcome) ==
  IF outcome.threw \/ outcome.embedding = <<>> THEN [threw |-> FALSE, value |-> <<1, 1>>]
  ELSE [threw |-> FALSE, value |-> outcome.embedding]

generateEmbedding(text, outcome) ==
  IF outcome.threw THEN [threw |-> FALSE, value |-> <<>>]
  ELSE [threw |-> FALSE, value |-> outcome.embedding]

(***************************************************************************)
(* Texts of the model                                                      *)
(***************************************************************************)
Milk == <<"M", "i", "l", "k">>

milk == <<"m", "i", "l", "k">>

Angelica == <<"A", "n", "g", "e", "l", "i", "c", "a">>

AngelicasChecking ==
  <<"A", "n", "g", "e", "l", "i", "c", "a", "'", "s", " ", "C", "h", "e", "c", "k", "i", "n", "g">>

AngelicasSavings ==
  <<"A", "n", "g", "e", "l", "i", "c", "a", "'", "s", " ", "S", "a", "v", "i", "n", "g", "s">>

(***************************************************************************)
(* Storage: receipt items.  ret holds the value of the last storage call   *)
(* until its caller has taken it; the calls of one caller do not overlap.  *)
(***************************************************************************)
NoRet == [op |-> "none"]

IdleChat == [pc |-> "idle"]

Return ==
  /\ ret # NoRet
  /\ ret' = NoRet
  /\ UNCHANGED <<receiptItems, transactions, accounts, clock, chat, chatMessages, runs>>

\* rows the matcher specification inserts
MatcherInputs ==
  {[transactionId |-> 1, itemDescription |-> Milk, itemAmount |-> 499]}

\* created_at defaults to now(): dt = 0 is an insert within the same clock reading
createReceiptItem(insertItem, outcome, dt) ==
  LET embedding == generateEmbedding(insertItem.itemDescription, outcome)
  IN /\ ret = NoRet
     /\ Len(receiptItems) < MaxItems
     /\ ~embedding.threw
     /\ receiptItems' = Append(receiptItems,
            [id |-> Len(receiptItems) + 1,
             transactionId |-> insertItem.transactionId,
             itemDescription |-> insertItem.itemDescription,
             itemAmount |-> insertItem.itemAmount,
             embedding |-> embedding.value,
             createdAt |-> clock + dt])
     /\ clock' = clock + dt
     /\ UNCHANGED <<transactions, accounts, ret, chat, chatMessages, runs>>

\* zero mutant: a row without an embedding counts as a full match
WithSimilarityNoEmbeddingMatches(row, searchEmbedding) ==
  row @@ [similarity |-> IF row.embedding # NULL
                         THEN cosineSimilarity(searchEmbedding, row.embedding)
                         ELSE 1000]

WithSimilarity(row, searchEmbedding) ==
  row @@ [similarity |-> IF row.embedding # NULL
                         THEN cosineSimilarity(searchEmbedding, row.embedding)
                         ELSE 0]

\* zero mutant: the filter step is missing
SimilarItemsUnfiltered(allItems, searchEmbedding, threshold) ==
  ArraySort([i \in 1..Len(allItems) |-> WithSimilarity(allItems[i], searchEmbedding)],
            "receiptItem")

\* zero mutant: the sort step is missing
SimilarItemsUnsorted(allItems, searchEmbedding, threshold) ==
  LET mapped == [i \in 1..Len(allItems) |-> WithSimilarity(allItems[i], searchEmbedding)]
      AboveThreshold(item) == GreaterEq(item.similarity, threshold)
  IN SelectSeq(mapped, AboveThreshold)

\* zero mutant: the filter lets a row through whose similarity is not a number
SimilarItemsNaNKept(allItems, searchEmbedding, threshold) ==
  LET mapped == [i \in 1..Len(allItems) |-> WithSimilarity(allItems[i], searchEmbedding)]
      AboveThreshold(item) == IsNaN(item.similarity) \/ item.similarity >= threshold
  IN ArraySort(SelectSeq(mapped, AboveThreshold), "receiptItem")

\* the map / filter / sort chain over the delivered rows
SimilarItems(allItems, searchEmbedding, threshold) ==
  LET mapped == [i \in 1..Len(allItems) |-> WithSimilarity(allItems[i], searchEmbedding)]
      AboveThreshold(item) == GreaterEq(item.similarity, threshold)
  IN ArraySort(SelectSeq(mapped, AboveThreshold), "receiptItem")

\* the value of a search call: what it returned, and what it used on the way
SearchRet(op, threshold, outcome, searchEmbedding, exception, rowsCompared, result) ==
  [op |-> op, threshold |-> threshold, provider |-> outcome,
   searchEmbedding |-> searchEmbedding, exception |-> exception,
   rowsCompared |-> rowsCompared, result |-> result]

Thresholds == {500, 990}

\* the values one call may return: one per order in which the rows are delivered
SearchReceiptItemsResults(rows, searchTerm, threshold, outcome) ==
  LET searchEmbedding == generateEmbedding(searchTerm, outcome)
      op == "searchReceiptItemsBySemantic"
  IN IF searchEmbedding.threw
     THEN {SearchRet(op, threshold, outcome, <<>>, TRUE, 0, <<>>)}
     ELSE IF Len(searchEmbedding.value) = 0
     THEN {SearchRet(op, threshold, outcome, <<>>, FALSE, 0, <<>>)}
     ELSE {SearchRet(op, threshold, outcome, searchEmbedding.value, FALSE, Len(allItems),
                     SimilarItems(allItems, searchEmbedding.value, threshold)) :
             allItems \in DeliveryOrders(rows)}

searchReceiptItemsBySemantic(searchTerm, threshold, outcome) ==
  /\ ret = NoRet
  /\ \E r \in SearchReceiptItemsResults(receiptItems, searchTerm, threshold, outcome) : ret' = r
  /\ UNCHANGED <<receiptItems, transactions, accounts, clock, chat, chatMessages, runs>>

\* a merchant that is SQL NULL
NullText == <<"null">>

MilkBar ==
  <<"M", "i", "l", "k", " ", "B", "a", "r">>

MILKCO ==
  <<"M", "I", "L", "K", " ", "C", "O">>

\* the transactions table; no handler modelled here inserts or deletes one
TransactionSeed ==
  << [id |-> 1, accountId |-> 1, amount |-> 0 - 2000, merchant |-> MilkBar, date |-> 1],
     [id |-> 2, accountId |-> 1, amount |-> 0 - 500, merchant |-> MILKCO, date |-> 2],
     [id |-> 3, accountId |-> 2, amount |-> 100, merchant |-> NullText, date |-> 3] >>

(***************************************************************************)
(* Storage: accounts                                                       *)
(***************************************************************************)
\* the accounts of the matcher specification, as createAccount stored them
AccountSeed ==
  <<[id |-> 1, name |-> AngelicasChecking, embedding |-> <<1, 1>>],
    [id |-> 2, name |-> AngelicasSavings, embedding |-> <<2, 1>>]>>

\* the map / filter / sort chain of searchAccountsBySemantic
SimilarAccounts(allAccounts, searchEmbedding, threshold) ==
  LET mapped == [i \in 1..Len(allAccounts) |-> WithSimilarity(allAccounts[i], searchEmbedding)]
      AboveThreshold(account) == GreaterEq(account.similarity, threshold)
  IN ArraySort(SelectSeq(mapped, AboveThreshold), "account")

AccountThresholds == {600, 650}

SearchAccountsResults(rows, searchTerm, threshold, outcome) ==
  LET searchEmbedding == generateEmbedding(searchTerm, outcome)
      op == "searchAccountsBySemantic"
  IN IF searchEmbedding.threw
     THEN {SearchRet(op, threshold, outcome, <<>>, TRUE, 0, <<>>)}
     ELSE IF Len(searchEmbedding.value) = 0
     THEN {SearchRet(op, threshold, outcome, <<>>, FALSE, 0, <<>>)}
     ELSE {SearchRet(op, threshold, outcome, searchEmbedding.value, FALSE, Len(allAccounts),
                     SimilarAccounts(allAccounts, searchEmbedding.value, threshold)) :
             allAccounts \in DeliveryOrders(rows)}

searchAccountsBySemantic(searchTerm, threshold, outcome) ==
  /\ ret = NoRet
  /\ \E r \in SearchAccountsResults(accounts, searchTerm, threshold, outcome) : ret' = r
  /\ UNCHANGED <<receiptItems, transactions, accounts, clock, chat, chatMessages, runs>>

(***************************************************************************)
(* The matcher specification                                               *)
(***************************************************************************)
Init ==
  /\ receiptItems = <<>>
  /\ transactions = TransactionSeed
  /\ accounts = AccountSeed
  /\ clock = 1
  /\ ret = NoRet
  /\ chat = IdleChat
  /\ chatMessages = <<>>
  /\ runs = <<>>

Next ==
  \/ \E insertItem \in MatcherInputs, outcome \in ProviderOutcomes, dt \in {0, 1} :
        createReceiptItem(insertItem, outcome, dt)
  \/ \E threshold \in Thresholds, outcome \in ProviderOutcomes :
        searchReceiptItemsBySemantic(milk, threshold, outcome)
  \/ \E threshold \in AccountThresholds, outcome \in ProviderOutcomes :
        searchAccountsBySemantic(toLowerCase(Angelica), threshold, outcome)
  \/ Return

Spec == Init /\ [][Next]_vars

\* C1: the matcher never returns a row whose computed similarity is below
\* the threshold it was called with, for every stored collection, query
\* embedding and threshold; an empty or all-below-threshold collection
\* gives the empty list and no exception.
Thm_C1_ThresholdRespected ==
  ret.op = "searchReceiptItemsBySemantic" =>
    /\ ~ret.exception
    /\ \A i \in 1..Len(ret.result) :
         /\ ~IsNaN(ret.result[i].similarity)
         /\ ret.result[i].similarity >= ret.threshold
         /\ ret.result[i].similarity =
              cosineSimilarity(ret.searchEmbedding, ret.result[i].embedding)

\* a search that kept one stored row and dropped another for being below the threshold
Wit_C1_RowFilteredOut ==
  /\ ret.op = "searchReceiptItemsBySemantic"
  /\ Len(ret.result) >= 1
  /\ Len(ret.result) < ret.rowsCompared

\* C2: every adjacent pair of the returned list is either separated by more
\* than 0.05 of similarity, or is within 0.05 and in descending createdAt
\* order.
Thm_C2_AdjacentPairsOrdered ==
  ret.op = "searchReceiptItemsBySemantic" =>
    \A i \in 1..(Len(ret.result) - 1) :
      \/ ret.result[i].similarity - ret.result[i + 1].similarity > 50
      \/ /\ ret.result[i].similarity - ret.result[i + 1].similarity <= 50
         /\ ret.result[i].createdAt >= ret.result[i + 1].createdAt

\* three returned rows on which the comparator is cyclic: each neighbour pair of
\* similarities is within 0.05, the outer pair is not, and the less similar
\* a row the more recent it is
Wit_C2_ThreeRowsIntransitive ==
  /\ ret.op = "searchReceiptItemsBySemantic"
  /\ Len(ret.result) = 3
  /\ \E a, b, c \in 1..3 :
       /\ ret.result[a].similarity - ret.result[b].similarity \in 1..50
       /\ ret.result[b].similarity - ret.result[c].similarity \in 1..50
       /\ ret.result[a].similarity - ret.result[c].similarity > 50
       /\ ret.result[a].createdAt < ret.result[b].createdAt
       /\ ret.result[b].createdAt < ret.result[c].createdAt

\* C5: when the embedding provider throws or answers an empty vector for the
\* search term, searchReceiptItemsBySemantic and searchAccountsBySemantic
\* return the empty list, raise no exception and compare no stored row.
Thm_C5_ProviderFailureGivesEmpty ==
  (/\ ret.op \in {"searchReceiptItemsBySemantic", "searchAccountsBySemantic"}
   /\ (ret.provider.threw \/ ret.provider.embedding = <<>>)) =>
    /\ ~ret.exception
    /\ ret.result = <<>>
    /\ ret.rowsCompared = 0

\* the provider threw while a row that a working provider can match is stored
Wit_C5_ProviderThrewWithRowsStored ==
  /\ ret.op = "searchReceiptItemsBySemantic"
  /\ ret.provider.threw
  /\ ret.result = <<>>
  /\ \E i \in 1..Len(receiptItems) : receiptItems[i].embedding = <<1, 1>>

(***************************************************************************)
(* Receipt reconstruction: the storage read                                *)
(***************************************************************************)
\* an absent (undefined) id
NoId == 0

Bread == <<"B", "r", "e", "a", "d">>

Eggs == <<"E", "g", "g", "s">>

IsAscendingByCreatedAt(rows) ==
  \A i \in 1..(Len(rows) - 1) : rows[i].createdAt <= rows[i + 1].createdAt

WhereTransactionId(rows, transactionId) ==
  LET Matches(row) == row.transactionId = transactionId
  IN SelectSeq(rows, Matches)

\* zero mutant: the where clause is never added
GetReceiptItemsResultsUnfiltered(rows, transactionId) ==
  {r \in DeliveryOrders(rows) : IsAscendingByCreatedAt(r)}

\* zero mutant: the order by clause is missing
GetReceiptItemsResultsUnordered(rows, transactionId) ==
  DeliveryOrders(IF transactionId # NoId THEN WhereTransactionId(rows, transactionId) ELSE rows)

\* the lists select ... [where transaction_id = X] order by created_at may answer:
\* rows of equal created_at come in any order
GetReceiptItemsResults(rows, transactionId) ==
  LET selected == IF transactionId # NoId THEN WhereTransactionId(rows, transactionId) ELSE rows
  IN {r \in DeliveryOrders(selected) : IsAscendingByCreatedAt(r)}

getReceiptItems(transactionId) ==
  /\ ret = NoRet
  /\ \E rows \in GetReceiptItemsResults(receiptItems, transactionId) :
       ret' = [op |-> "getReceiptItems", transactionId |-> transactionId, result |-> rows]
  /\ UNCHANGED <<receiptItems, transactions, accounts, clock, chat, chatMessages, runs>>

\* rows the receipt specification inserts: two transactions, signed amounts in cents
ReceiptInputs ==
  {[transactionId |-> t, itemDescription |-> Milk, itemAmount |-> 499] : t \in {1, 2}} \cup
  {[transactionId |-> t, itemDescription |-> Bread, itemAmount |-> 0 - 1299] : t \in {1, 2}}

TransactionIds == {1, 2, 3}

NextReceipts ==
  \/ \E insertItem \in ReceiptInputs, dt \in {0, 1} :
        createReceiptItem(insertItem, [threw |-> FALSE, embedding |-> <<1, 1>>], dt)
  \/ \E transactionId \in TransactionIds \cup {NoId} : getReceiptItems(transactionId)
  \/ Return

SpecReceipts == Init /\ [][NextReceipts]_vars

\* C6: getReceiptItems(X) returns only line items of transaction X, misses
\* none of them, and returns them in ascending createdAt order.
Thm_C6_ReceiptItemsOfTransaction ==
  (ret.op = "getReceiptItems" /\ ret.transactionId # NoId) =>
    /\ \A i \in 1..Len(ret.result) : ret.result[i].transactionId = ret.transactionId
    /\ \A j \in 1..Len(receiptItems) :
         receiptItems[j].transactionId = ret.transactionId =>
           Cardinality({i \in 1..Len(ret.result) : ret.result[i] = receiptItems[j]}) = 1
    /\ \A i \in 1..(Len(ret.result) - 1) :
         ret.result[i].createdAt <= ret.result[i + 1].createdAt

\* a receipt of two items read while the other transaction has an older item
Wit_C6_TwoOfThreeItems ==
  /\ ret.op = "getReceiptItems"
  /\ ret.transactionId = 2
  /\ Len(ret.result) = 2
  /\ ret.result[1].createdAt < ret.result[2].createdAt
  /\ \E j \in 1..Len(receiptItems) :
       /\ receiptItems[j].transactionId = 1
       /\ receiptItems[j].createdAt <= ret.result[1].createdAt

(***************************************************************************)
(* Storage: transactions and chat messages                                 *)
(***************************************************************************)
IsDescendingByDate(rows) ==
  \A i \in 1..(Len(rows) - 1) : rows[i].date >= rows[i + 1].date

Limit(rows, n) ==
  IF Len(rows) > n THEN SubSeq(rows, 1, n) ELSE rows

\* the SQL LIKE operator: % stands for any text, _ for any one character,
\* and a backslash takes the next pattern character literally
RECURSIVE Like(_, _)
Like(text, pattern) ==
  IF Len(pattern) = 0 THEN Len(text) = 0
  ELSE IF Head(pattern) = "%"
  THEN Like(text, Tail(pattern)) \/ (Len(text) > 0 /\ Like(Tail(text), pattern))
  ELSE IF Head(pattern) = "_"
  THEN Len(text) > 0 /\ Like(Tail(text), Tail(pattern))
  ELSE IF Head(pattern) = "\\" /\ Len(pattern) > 1
  THEN Len(text) > 0 /\ Head(text) = pattern[2] /\ Like(Tail(text), Tail(Tail(pattern)))
  ELSE Len(text) > 0 /\ Head(text) = Head(pattern) /\ Like(Tail(text), Tail(pattern))

\* zero mutant: the two LOWER calls are missing
MerchantLikeCaseSensitive(merchant, searchTerm) ==
  /\ merchant # NullText
  /\ Like(merchant, <<"%">> \o searchTerm \o <<"%">>)

\* LOWER(merchant) LIKE LOWER('%' || searchTerm || '%'); NULL matches nothing
MerchantLike(merchant, searchTerm) ==
  /\ merchant # NullText
  /\ Like(toLowerCase(merchant), toLowerCase(<<"%">> \o searchTerm \o <<"%">>))

\* the orders in which order by date desc may deliver the rows numbered in
\* S: rows of equal date come in any order
RECURSIVE DescendingByDate(_, _)
DescendingByDate(rows, S) ==
  IF S = {} THEN {<<>>}
  ELSE LET newest == {i \in S : \A j \in S : rows[i].date >= rows[j].date}
       IN UNION {{<<rows[i]>> \o rest : rest \in DescendingByDate(rows, S \ {i})} :
                   i \in newest}

SearchTransactionsResults(rows, searchTerm) ==
  LET matching == {i \in 1..Len(rows) : MerchantLike(rows[i].merchant, searchTerm)}
  IN {Limit(r, 20) : r \in DescendingByDate(rows, matching)}

GetTransactionsResults(rows, accountId, limit) ==
  LET matching == {i \in 1..Len(rows) : accountId = NoId \/ rows[i].accountId = accountId}
  IN {Limit(r, limit) : r \in DescendingByDate(rows, matching)}

\* const [transaction] = select ... where id = X: a list of one row, or of none
getTransaction(rows, id) ==
  LET Matches(row) == row.id = id
  IN Limit(SelectSeq(rows, Matches), 1)

\* zero mutant: the last transaction of the store search is taken
GetLatestReceiptResultsOldest(txRows, itemRows, searchTerm) ==
  UNION {IF Len(storeTransactions) = 0
         THEN {<<>>}
         ELSE {r \in DeliveryOrders(WhereTransactionId(itemRows,
                                      storeTransactions[Len(storeTransactions)].id)) :
                 IsAscendingByCreatedAt(r)} :
           storeTransactions \in SearchTransactionsResults(txRows, searchTerm)}

\* the line items of the newest transaction of the store
GetLatestReceiptResults(txRows, itemRows, searchTerm) ==
  UNION {IF Len(storeTransactions) = 0
         THEN {<<>>}
         ELSE {r \in DeliveryOrders(WhereTransactionId(itemRows, storeTransactions[1].id)) :
                 IsAscendingByCreatedAt(r)} :
           storeTransactions \in SearchTransactionsResults(txRows, searchTerm)}

\* code point of a character of the model's texts
CharCode(c) ==
  IF \E k \in 1..26 : UpperLetters[k] = c
  THEN 64 + (CHOOSE k \in 1..26 : UpperLetters[k] = c)
  ELSE IF \E k \in 1..26 : LowerLetters[k] = c
  THEN 96 + (CHOOSE k \in 1..26 : LowerLetters[k] = c)
  ELSE IF c = "'" THEN 39
  ELSE IF c = "?" THEN 63
  ELSE 32

RECURSIVE TextLessEq(_, _)
TextLessEq(a, b) ==
  IF Len(a) = 0 THEN TRUE
  ELSE IF Len(b) = 0 THEN FALSE
  ELSE IF CharCode(Head(a)) # CharCode(Head(b)) THEN CharCode(Head(a)) < CharCode(Head(b))
  ELSE TextLessEq(Tail(a), Tail(b))

\* order by name; rows of equal name come in any order
GetAccountsResults(rows) ==
  {r \in DeliveryOrders(rows) :
     \A i \in 1..(Len(r) - 1) : TextLessEq(r[i].name, r[i + 1].name)}

(***************************************************************************)
(* POST /api/chat.  One request is in flight at a time; chat.pc is the     *)
(* await the handler is suspended at, and the other fields are its locals. *)
(* Other requests (createReceiptItem) run between the handler's awaits.    *)
(***************************************************************************)
MaxMessages == 3

WhenDidILastBuyMilk ==
  <<"W", "h", "e", "n", " ", "d", "i", "d", " ", "I", " ", "l", "a", "s",
    "t", " ", "b", "u", "y", " ", "m", "i", "l", "k", "?">>

WhatWasMyLastPurchaseOfMilk ==
  <<"W", "h", "a", "t", " ", "w", "a", "s", " ", "m", "y", " ", "l", "a",
    "s", "t", " ", "p", "u", "r", "c", "h", "a", "s", "e", " ", "o", "f",
    " ", "m", "i", "l", "k", "?">>

ShowMyMilkBarReceipts ==
  <<"S", "h", "o", "w", " ", "m", "y", " ", "M", "i", "l", "k", " ", "B",
    "a", "r", " ", "r", "e", "c", "e", "i", "p", "t", "s">>

ClearChat ==
  <<"C", "l", "e", "a", "r", " ", "c", "h", "a", "t">>

ReceiptWord ==
  <<"r", "e", "c", "e", "i", "p", "t">>

clearChatPhrases ==
  {
    <<"c", "l", "e", "a", "r", " ", "t", "h", "e", " ", "c", "h", "a", "t">>,
    <<"c", "l", "e", "a", "r", " ", "c", "h", "a", "t">>,
    <<"c", "l", "e", "a", "r", " ", "c", "o", "n", "v", "e", "r", "s", "a",
      "t", "i", "o", "n">>,
    <<"d", "e", "l", "e", "t", "e", " ", "c", "h", "a", "t", " ", "h", "i",
      "s", "t", "o", "r", "y">>,
    <<"r", "e", "s", "e", "t", " ", "c", "h", "a", "t">>,
    <<"s", "t", "a", "r", "t", " ", "f", "r", "e", "s", "h">>,
    <<"n", "e", "w", " ", "c", "o", "n", "v", "e", "r", "s", "a", "t", "i",
      "o", "n">>
  }

shouldClearChat(message) ==
  \E phrase \in clearChatPhrases : includes(toLowerCase(message), phrase)

\* the descriptor parseFinancialQuery answers with; an absent parameter is
\* the empty text, "none" or FALSE, which the handler's truth tests treat alike
Query(queryType, accountName, searchTerm, searchType, isLatest) ==
  [queryType |-> queryType, accountName |-> accountName, searchTerm |-> searchTerm,
   searchType |-> searchType, isLatest |-> isLatest]

\* parsed is the descriptor as the parser returned it, saved the flags
\* (isUser) of the chat messages the request has stored so far
ChatLocals(pc, message, parsed, query) ==
  [pc |-> pc, message |-> message, parsed |-> parsed, query |-> query,
   saved |-> <<>>, targetAccountId |-> NoId,
   exactMatches |-> <<>>, containsMatches |-> <<>>, semanticMatches |-> <<>>,
   matchType |-> "none", matches |-> <<>>, dbQueries |-> <<>>,
   ranked |-> <<>>, responseData |-> <<>>, cursor |-> 0, receipts |-> <<>>,
   response |-> "none"]

\* zero mutant: the descriptor is dispatched as the parser returned it
AccountNameOverrideNever(parsed) == parsed

\* "If an account name is specified, always treat it as a transaction request"
AccountNameOverride(parsed) ==
  IF Len(parsed.accountName) > 0
  THEN [parsed EXCEPT !.queryType = "transactions"]
  ELSE parsed

\* message received and parsed; an account name turns the query into a
\* transactions query
ChatRequest(message, parsed) ==
  /\ chat = IdleChat
  /\ Len(message) > 0
  /\ ~shouldClearChat(message)
  /\ Len(chatMessages) + 2 <= MaxMessages
  /\ LET query == AccountNameOverride(parsed)
     IN chat' = ChatLocals(IF Len(query.accountName) > 0 THEN "resolve" ELSE "dispatch",
                           message, parsed, query)
  /\ UNCHANGED <<receiptItems, transactions, accounts, clock, ret, chatMessages, runs>>

\* the clear request: the user message is stored ...
ChatClearRequest(message) ==
  /\ chat = IdleChat
  /\ Len(message) > 0
  /\ shouldClearChat(message)
  /\ Len(chatMessages) < MaxMessages
  /\ chatMessages' = Append(chatMessages, [isUser |-> TRUE])
  /\ chat' = [pc |-> "clear"]
  /\ UNCHANGED <<receiptItems, transactions, accounts, clock, ret, runs>>

\* ... and then the whole history is deleted
ChatClearMessages ==
  /\ chat.pc = "clear"
  /\ chatMessages' = <<>>
  /\ chat' = IdleChat
  /\ UNCHANGED <<receiptItems, transactions, accounts, clock, ret, runs>>

\* accountSearchResult and targetAccountId once allMatches is known; a
\* request whose account is not found or ambiguous goes on to ask back
Resolved(c, matchType, allMatches) ==
  [c EXCEPT !.matchType = matchType,
            !.matches = allMatches,
            !.targetAccountId = IF Len(allMatches) = 1 THEN allMatches[1].id ELSE NoId,
            !.pc = IF Len(allMatches) = 1 THEN "dispatch" ELSE "clarify"]

\* zero mutant: the contains tier is missing
TextAllMatchesExactOnly(exactMatches, containsMatches) ==
  IF Len(exactMatches) > 0
  THEN [matchType |-> "exact", allMatches |-> exactMatches]
  ELSE [matchType |-> "none", allMatches |-> <<>>]

\* zero mutant: the first exact match is taken however many there are
TextAllMatchesFirstExact(exactMatches, containsMatches) ==
  IF Len(exactMatches) > 0
  THEN [matchType |-> "exact", allMatches |-> <<exactMatches[1]>>]
  ELSE IF Len(containsMatches) = 1
  THEN [matchType |-> "contains_single", allMatches |-> containsMatches]
  ELSE [matchType |-> "none", allMatches |-> <<>>]

\* allMatches of the two text tiers; "none" sends the request on to the
\* semantic tier
TextAllMatches(exactMatches, containsMatches) ==
  IF Len(exactMatches) > 0
  THEN [matchType |-> "exact", allMatches |-> exactMatches]
  ELSE IF Len(containsMatches) = 1
  THEN [matchType |-> "contains_single", allMatches |-> containsMatches]
  ELSE [matchType |-> "none", allMatches |-> <<>>]

\* getAccounts and the two text filters
ChatResolveAccount ==
  /\ chat.pc = "resolve"
  /\ \E rows \in GetAccountsResults(accounts) :
       LET searchTerm == toLowerCase(chat.query.accountName)
           IsExact(account) == toLowerCase(account.name) = searchTerm
           Contains(account) == includes(toLowerCase(account.name), searchTerm)
           exactMatches == SelectSeq(rows, IsExact)
           containsMatches == SelectSeq(rows, Contains)
           c == [chat EXCEPT !.exactMatches = exactMatches,
                             !.containsMatches = containsMatches]
           m == TextAllMatches(exactMatches, containsMatches)
       IN chat' = IF m.matchType # "none" THEN Resolved(c, m.matchType, m.allMatches)
                  ELSE [c EXCEPT !.pc = "semantic"]
  /\ UNCHANGED <<receiptItems, transactions, accounts, clock, ret, chatMessages, runs>>

\* zero mutant: the contains matches are preferred to a semantic hit
SemanticAllMatchesContainsFirst(semanticMatches, containsMatches) ==
  IF Len(containsMatches) > 0
  THEN [matchType |-> "contains_multiple", allMatches |-> containsMatches]
  ELSE IF Len(semanticMatches) >= 1
  THEN [matchType |-> "semantic_single", allMatches |-> <<semanticMatches[1]>>]
  ELSE [matchType |-> "semantic_none", allMatches |-> containsMatches]

\* zero mutant: the top semantic hit is taken whatever its lead
SemanticAllMatchesTopAlways(semanticMatches, containsMatches) ==
  IF Len(semanticMatches) >= 1
  THEN [matchType |-> "semantic_clear_winner", allMatches |-> <<semanticMatches[1]>>]
  ELSE [matchType |-> "semantic_none", allMatches |-> containsMatches]

\* allMatches of the semantic tier
SemanticAllMatches(semanticMatches, containsMatches) ==
  IF Len(semanticMatches) = 1
  THEN [matchType |-> "semantic_single", allMatches |-> <<semanticMatches[1]>>]
  ELSE IF Len(semanticMatches) > 1
  THEN IF semanticMatches[1].similarity - semanticMatches[2].similarity >= 150
       THEN [matchType |-> "semantic_clear_winner", allMatches |-> <<semanticMatches[1]>>]
       ELSE [matchType |-> "semantic_ambiguous",
             allMatches |-> IF Len(containsMatches) > 0 THEN containsMatches
                            ELSE Limit(semanticMatches, 3)]
  ELSE [matchType |-> "semantic_none", allMatches |-> containsMatches]

\* searchAccountsBySemantic(searchTerm, 0.65); an exception falls back to
\* the contains matches
ChatSemanticAccountSearch(outcome) ==
  /\ chat.pc = "semantic"
  /\ \E r \in SearchAccountsResults(accounts, toLowerCase(chat.query.accountName), 650, outcome) :
       chat' = IF r.exception
               THEN Resolved(chat, "semantic_error", chat.containsMatches)
               ELSE LET m == SemanticAllMatches(r.result, chat.containsMatches)
                    IN Resolved([chat EXCEPT !.semanticMatches = r.result],
                                m.matchType, m.allMatches)
  /\ UNCHANGED <<receiptItems, transactions, accounts, clock, ret, chatMessages, runs>>

\* zero mutant: the question back is stored without the user message
ChatClarifySkipsUserMessage ==
  /\ chat.pc = "clarify"
  /\ chat' = [chat EXCEPT !.pc = "clarifyReply",
                          !.response = IF Len(chat.matches) = 0 THEN "accountNotFound"
                                       ELSE "accountAmbiguous"]
  /\ UNCHANGED <<receiptItems, transactions, accounts, clock, ret, chatMessages, runs>>

\* not found or ambiguous: the user message is stored ...
ChatClarifySaveUserMessage ==
  /\ chat.pc = "clarify"
  /\ chatMessages' = Append(chatMessages, [isUser |-> TRUE])
  /\ chat' = [chat EXCEPT !.pc = "clarifyReply",
                          !.saved = Append(@, TRUE),
                          !.response = IF Len(chat.matches) = 0 THEN "accountNotFound"
                                       ELSE "accountAmbiguous"]
  /\ UNCHANGED <<receiptItems, transactions, accounts, clock, ret, runs>>

\* ... then the question back to the user, which ends the request
ChatClarifySaveReply ==
  /\ chat.pc = "clarifyReply"
  /\ chatMessages' = Append(chatMessages, [isUser |-> FALSE])
  /\ chat' = IdleChat
  /\ UNCHANGED <<receiptItems, transactions, accounts, clock, ret, runs>>

\* what the first switch reads for the query: the list as the storage
\* answered (ranked) and the list the handler keeps (responseData)
Dispatched(exception, dbQueries, ranked, responseData) ==
  [exception |-> exception, dbQueries |-> dbQueries, ranked |-> ranked,
   responseData |-> responseData]

\* zero mutant: the handler never truncates
FirstIfLatestNever(query, rows) == rows

FirstIfLatest(query, rows) ==
  IF query.isLatest /\ Len(rows) > 0 THEN <<rows[1]>> ELSE rows

DispatchResults(query, targetAccountId, outcome) ==
  CASE query.queryType = "transactions" ->
         {Dispatched(FALSE, <<"getTransactions">>, rows, rows) :
            rows \in GetTransactionsResults(transactions, targetAccountId, 20)}
    [] query.queryType = "semantic_search" ->
         IF Len(query.searchTerm) = 0
         THEN {Dispatched(FALSE, <<>>, <<>>, <<>>)}
         ELSE IF query.searchType = "store"
         THEN {Dispatched(FALSE, <<"searchTransactionsBySemantic">>, rows,
                            FirstIfLatest(query, rows)) :
                 rows \in SearchTransactionsResults(transactions, query.searchTerm)}
         ELSE {Dispatched(r.exception, <<"searchReceiptItemsBySemantic">>, r.result,
                            FirstIfLatest(query, r.result)) :
                 r \in SearchReceiptItemsResults(receiptItems, query.searchTerm, 500, outcome)}
    [] query.queryType = "latest_receipt" ->
         IF Len(query.searchTerm) = 0
         THEN {Dispatched(FALSE, <<>>, <<>>, <<>>)}
         ELSE {Dispatched(FALSE, <<"getLatestReceiptFromStore">>, rows, rows) :
                 rows \in GetLatestReceiptResults(transactions, receiptItems, query.searchTerm)}
    [] OTHER ->
         IF targetAccountId # NoId
         THEN {Dispatched(FALSE, <<"getTransactions">>, rows, rows) :
                 rows \in GetTransactionsResults(transactions, targetAccountId, 20)}
         ELSE {Dispatched(FALSE, <<"getAccounts">>, rows, rows) :
                 rows \in GetAccountsResults(accounts)}

\* the outcomes of the provider call a chat search makes
ChatProviderOutcomes ==
  {[threw |-> FALSE, embedding |-> <<1, 1>>], [threw |-> TRUE, embedding |-> <<>>]}

\* a storage call that throws ends the request with status 500
ChatDispatch(outcome) ==
  /\ chat.pc = "dispatch"
  /\ \E d \in DispatchResults(chat.query, chat.targetAccountId, outcome) :
       chat' = IF d.exception
               THEN IdleChat
               ELSE [chat EXCEPT !.pc = "respond", !.dbQueries = @ \o d.dbQueries,
                                 !.ranked = d.ranked,
                                 !.responseData = d.responseData]
  /\ UNCHANGED <<receiptItems, transactions, accounts, clock, ret, chatMessages, runs>>

(***************************************************************************)
(* The second switch: the reply.  A reply is kept as its kind and the      *)
(* receipts printed in it; a receipt is its lines, TOTAL and item count.   *)
(***************************************************************************)
RECURSIVE SumAbsAmounts(_)
SumAbsAmounts(rows) ==
  IF Len(rows) = 0 THEN 0 ELSE Abs(Head(rows).itemAmount) + SumAbsAmounts(Tail(rows))

\* zero mutant: every line is marked
ReceiptLineAlwaysMarked(receiptItem, highlightIds) ==
  [id |-> receiptItem.id, itemDescription |-> receiptItem.itemDescription,
   itemAmount |-> receiptItem.itemAmount, price |-> Abs(receiptItem.itemAmount),
   highlighted |-> TRUE]

ReceiptLine(receiptItem, highlightIds) ==
  [id |-> receiptItem.id, itemDescription |-> receiptItem.itemDescription,
   itemAmount |-> receiptItem.itemAmount, price |-> Abs(receiptItem.itemAmount),
   highlighted |-> receiptItem.id \in highlightIds]

\* zero mutant: TOTAL is the amount of the transaction
BuildReceiptFromTransactionAmount(transactionId, fullReceipt, highlightIds) ==
  [transactionId |-> transactionId,
   lines |-> [i \in 1..Len(fullReceipt) |-> ReceiptLine(fullReceipt[i], highlightIds)],
   total |-> IF Len(getTransaction(TransactionSeed, transactionId)) = 0 THEN 0
             ELSE Abs(getTransaction(TransactionSeed, transactionId)[1].amount),
   itemCount |-> Len(fullReceipt)]

BuildReceipt(transactionId, fullReceipt, highlightIds) ==
  [transactionId |-> transactionId,
   lines |-> [i \in 1..Len(fullReceipt) |-> ReceiptLine(fullReceipt[i], highlightIds)],
   total |-> SumAbsAmounts(fullReceipt),
   itemCount |-> Len(fullReceipt)]

\* zero mutant: one group per matched item
GroupKeysPerItem(rows, seen) ==
  [i \in 1..Len(rows) |-> rows[i].transactionId]

\* keys of the Map the items are grouped in, in insertion order
RECURSIVE GroupKeys(_, _)
GroupKeys(rows, seen) ==
  IF Len(rows) = 0 THEN <<>>
  ELSE IF Head(rows).transactionId \in seen THEN GroupKeys(Tail(rows), seen)
  ELSE <<Head(rows).transactionId>> \o
       GroupKeys(Tail(rows), seen \cup {Head(rows).transactionId})

IdsOfTransaction(rows, transactionId) ==
  {rows[i].id : i \in {k \in 1..Len(rows) : rows[k].transactionId = transactionId}}

\* zero mutant: the latest store visit is answered with the receipt of the
\* selected transaction
ReceiptPlanStoreLatestReceipt(c) ==
  LET rd == c.responseData
      q == c.query
  IN IF q.queryType # "semantic_search" \/ Len(rd) = 0 THEN <<>>
     ELSE IF q.searchType = "store"
     THEN IF includes(toLowerCase(c.message), ReceiptWord) \/ q.isLatest
          THEN [i \in 1..Len(rd) |->
                  [branch |-> "store", transactionId |-> rd[i].id, highlightIds |-> {}]]
          ELSE <<>>
     ELSE IF q.isLatest
     THEN <<[branch |-> "latest", transactionId |-> rd[1].transactionId,
             highlightIds |-> {rd[1].id}]>>
     ELSE LET keys == GroupKeys(rd, {})
          IN [i \in 1..Len(keys) |->
                [branch |-> "grouped", transactionId |-> keys[i],
                 highlightIds |-> IdsOfTransaction(rd, keys[i])]]

\* the receipts the reply is going to print, in order; each one costs one
\* await of getReceiptItems (and of getTransaction where the branch reads it)
ReceiptPlan(c) ==
  LET rd == c.responseData
      q == c.query
  IN IF q.queryType # "semantic_search" \/ Len(rd) = 0 THEN <<>>
     ELSE IF q.searchType = "store"
     THEN IF includes(toLowerCase(c.message), ReceiptWord) /\ ~q.isLatest
          THEN [i \in 1..Len(rd) |->
                  [branch |-> "store", transactionId |-> rd[i].id, highlightIds |-> {}]]
          ELSE <<>>
     ELSE IF q.isLatest
     THEN <<[branch |-> "latest", transactionId |-> rd[1].transactionId,
             highlightIds |-> {rd[1].id}]>>
     ELSE LET keys == GroupKeys(rd, {})
          IN [i \in 1..Len(keys) |->
                [branch |-> "grouped", transactionId |-> keys[i],
                 highlightIds |-> IdsOfTransaction(rd, keys[i])]]

\* the reply when no receipt is reconstructed from a second read
PlainReply(c) ==
  LET rd == c.responseData
      q == c.query
  IN CASE q.queryType = "semantic_search" ->
            IF Len(rd) = 0 THEN "noItemsFound"
            ELSE IF q.searchType = "store"
            THEN IF includes(toLowerCase(c.message), ReceiptWord) /\ ~q.isLatest
                 THEN "storeReceipts"
                 ELSE IF q.isLatest THEN "lastVisit" ELSE "storeVisits"
            ELSE IF q.isLatest THEN "lastPurchase" ELSE "productReceipts"
       [] q.queryType = "latest_receipt" ->
            IF Len(rd) > 0 THEN "latestReceipt" ELSE "noRecentReceipts"
       [] q.queryType = "transactions" -> "transactions"
       [] OTHER ->
            IF c.targetAccountId # NoId /\ Len(rd) > 0 THEN "accountTransactions"
            ELSE "accountOverview"

\* one stretch of the second switch, up to its next await
ChatRespond ==
  /\ chat.pc = "respond"
  /\ LET plan == ReceiptPlan(chat)
     IN IF chat.cursor < Len(plan)
        THEN LET step == plan[chat.cursor + 1]
                 transaction == getTransaction(transactions, step.transactionId)
                 done == IF chat.cursor + 1 = Len(plan) THEN "save" ELSE "respond"
             IN \E fullReceipt \in GetReceiptItemsResults(receiptItems, step.transactionId) :
                  chat' =
                    CASE step.branch = "store" /\ Len(fullReceipt) = 0 ->
                           [chat EXCEPT !.cursor = @ + 1, !.pc = done,
                                        !.response = PlainReply(chat)]
                      [] step.branch = "latest" /\ Len(transaction) = 0 ->
                           [chat EXCEPT !.cursor = @ + 1, !.pc = "save",
                                        !.response = "transactionNotFound"]
                      [] step.branch = "grouped" /\ Len(transaction) = 0 ->
                           [chat EXCEPT !.cursor = @ + 1, !.pc = done,
                                        !.response = PlainReply(chat)]
                      [] OTHER ->
                           [chat EXCEPT !.cursor = @ + 1, !.pc = done,
                                        !.response = PlainReply(chat),
                                        !.receipts = Append(@,
                                           BuildReceipt(step.transactionId, fullReceipt,
                                                        step.highlightIds))]
        ELSE chat' = [chat EXCEPT
                        !.pc = "save",
                        !.response = PlainReply(chat),
                        !.receipts =
                           IF chat.query.queryType = "latest_receipt" /\ Len(chat.responseData) > 0
                           THEN <<BuildReceipt(NoId, chat.responseData, {})>>
                           ELSE <<>>]
  /\ UNCHANGED <<receiptItems, transactions, accounts, clock, ret, chatMessages, runs>>

\* the user message is stored ...
ChatSaveUserMessage ==
  /\ chat.pc = "save"
  /\ chatMessages' = Append(chatMessages, [isUser |-> TRUE])
  /\ chat' = [chat EXCEPT !.pc = "reply", !.saved = Append(@, TRUE)]
  /\ UNCHANGED <<receiptItems, transactions, accounts, clock, ret, runs>>

\* ... then the reply, and the reply is sent
ChatSaveReply ==
  /\ chat.pc = "reply"
  /\ chatMessages' = Append(chatMessages, [isUser |-> FALSE])
  /\ chat' = IdleChat
  /\ UNCHANGED <<receiptItems, transactions, accounts, clock, ret, runs>>

(***************************************************************************)
(* The chat specification: receipts are uploaded while questions about     *)
(* purchases are asked.                                                    *)
(***************************************************************************)
\* line items uploaded, each with the embedding the provider gave for it;
\* the provider failed for Eggs
ChatReceiptInputs ==
  {<<[transactionId |-> t, itemDescription |-> Milk, itemAmount |-> 499],
     [threw |-> FALSE, embedding |-> <<1, 1>>]>> : t \in {1, 2}} \cup
  {<<[transactionId |-> 1, itemDescription |-> Bread, itemAmount |-> 0 - 1299],
     [threw |-> FALSE, embedding |-> <<3, 2>>]>>,
   <<[transactionId |-> 1, itemDescription |-> Eggs, itemAmount |-> 350],
     [threw |-> TRUE, embedding |-> <<>>]>>}

ChatMessages == {WhenDidILastBuyMilk, WhatWasMyLastPurchaseOfMilk, ShowMyMilkBarReceipts}

\* descriptors the parser may answer with for a question that names no account
ChatQueries ==
  {Query("semantic_search", <<>>, milk, searchType, isLatest) :
     searchType \in {"product", "store"}, isLatest \in BOOLEAN} \cup
  {Query("latest_receipt", <<>>, milk, "store", isLatest) : isLatest \in BOOLEAN} \cup
  {Query("semantic_search", <<>>, <<>>, "none", FALSE),
   Query("transactions", <<>>, <<>>, "none", TRUE),
   Query("general", <<>>, <<>>, "none", FALSE)}

NextChat ==
  \/ \E input \in ChatReceiptInputs : createReceiptItem(input[1], input[2], 1)
  \/ \E message \in ChatMessages, parsed \in ChatQueries : ChatRequest(message, parsed)
  \/ ChatClearRequest(ClearChat)
  \/ ChatClearMessages
  \/ \E outcome \in ChatProviderOutcomes : ChatDispatch(outcome)
  \/ ChatRespond
  \/ ChatSaveUserMessage
  \/ ChatSaveReply

SpecChat == Init /\ [][NextChat]_vars

\* the handler is past its first switch: the result list is in its hands
ResultListKept == chat.pc \in {"respond", "save", "reply"}

\* C3 as amended: for a semantic_search query with isLatest = true the result
\* list the reply is built from has at most one entry, and that entry is the
\* first of the ranked list the search of that mode returned; the
\* latest_receipt query keeps the whole receipt.
Thm_C3_LatestKeepsTopRanked ==
  ResultListKept =>
    /\ (chat.query.queryType = "semantic_search" /\ chat.query.isLatest) =>
          /\ Len(chat.responseData) <= 1
          /\ Len(chat.ranked) > 0 => chat.responseData = <<chat.ranked[1]>>
          /\ Len(chat.ranked) = 0 => chat.responseData = <<>>
    /\ chat.query.queryType = "latest_receipt" => chat.responseData = chat.ranked

\* three items matched, the first of the ranking kept
Wit_C3_TopOfThreeKept ==
  /\ ResultListKept
  /\ chat.query.queryType = "semantic_search"
  /\ chat.query.searchType = "product"
  /\ chat.query.isLatest
  /\ Len(chat.ranked) >= 2
  /\ chat.responseData = <<chat.ranked[1]>>

\* C3 as stated: whenever isLatest = true the result list has length <= 1 and
\* is the head of the ranked list.
Orig_C3_LatestAlwaysAtMostOne ==
  (ResultListKept /\ chat.query.isLatest) =>
    /\ Len(chat.responseData) <= 1
    /\ Len(chat.ranked) > 0 => chat.responseData = <<chat.ranked[1]>>

whenDidIBuy ==
  <<"w", "h", "e", "n", " ", "d", "i", "d", " ", "i", " ", "b", "u", "y",
    " ">>

whenDidILastBuy ==
  <<"w", "h", "e", "n", " ", "d", "i", "d", " ", "i", " ", "l", "a", "s",
    "t", " ", "b", "u", "y", " ">>

whatWasMyLastPurchaseOf ==
  <<"w", "h", "a", "t", " ", "w", "a", "s", " ", "m", "y", " ", "l", "a",
    "s", "t", " ", "p", "u", "r", "c", "h", "a", "s", "e", " ", "o", "f",
    " ">>

\* the phrasings the override policy names
IsLastPurchaseQuestion(message) ==
  \/ includes(toLowerCase(message), whenDidIBuy)
  \/ includes(toLowerCase(message), whenDidILastBuy)
  \/ includes(toLowerCase(message), whatWasMyLastPurchaseOf)

\* C4 as stated: a "when did I last buy X" / "what was my last purchase of X"
\* message runs the product search with isLatest = true whatever the parser
\* answered.
Orig_C4_LastPurchaseRunsProductSearch ==
  (ResultListKept /\ IsLastPurchaseQuestion(chat.message)) =>
    /\ chat.dbQueries = <<"searchReceiptItemsBySemantic">>
    /\ Len(chat.responseData) <= 1

RECURSIVE LinesTotal(_)
LinesTotal(lines) ==
  IF Len(lines) = 0 THEN 0
  ELSE (IF Head(lines).itemAmount < 0 THEN 0 - Head(lines).itemAmount
        ELSE Head(lines).itemAmount) + LinesTotal(Tail(lines))

\* C7: the TOTAL of every reconstructed receipt is the sum of the absolute
\* amounts of exactly the lines printed on it, the item count is the number
\* of those lines, and every line is a stored line item with its own amount.
Thm_C7_TotalIsSumOfLines ==
  ResultListKept =>
    \A k \in 1..Len(chat.receipts) :
      LET r == chat.receipts[k]
      IN /\ r.total = LinesTotal(r.lines)
         /\ r.itemCount = Len(r.lines)
         /\ \A i \in 1..Len(r.lines) :
              /\ r.lines[i].id \in 1..Len(receiptItems)
              /\ receiptItems[r.lines[i].id].itemAmount = r.lines[i].itemAmount
              /\ r.lines[i].price * r.lines[i].price = r.lines[i].itemAmount * r.lines[i].itemAmount
              /\ r.lines[i].price >= 0

\* items 4.99, 12.99 (stored negative) and 3.50 give 21.48 with 3 items on a
\* transaction whose own amount is 20.00
Wit_C7_ThreeItems2148 ==
  /\ ResultListKept
  /\ \E k \in 1..Len(chat.receipts) :
       LET r == chat.receipts[k]
       IN /\ r.transactionId = 1
          /\ [i \in 1..Len(r.lines) |-> r.lines[i].price] = <<499, 1299, 350>>
          /\ r.total = 2148
          /\ r.itemCount = 3
          /\ TransactionSeed[1].amount = 0 - 2000

(***************************************************************************)
(* The account specification: accounts are created while questions that    *)
(* name an account are asked.                                              *)
(***************************************************************************)
MaxAccounts == 2

ANGELICA ==
  <<"A", "N", "G", "E", "L", "I", "C", "A">>

createAccount(insertAccount, outcome) ==
  LET embedding == generateEmbedding(insertAccount.name, outcome)
  IN /\ Len(accounts) < MaxAccounts
     /\ ~embedding.threw
     /\ accounts' = Append(accounts,
            [id |-> Len(accounts) + 1, name |-> insertAccount.name,
             embedding |-> embedding.value])
     /\ UNCHANGED <<receiptItems, transactions, clock, ret, chat, chatMessages, runs>>

AccountInputs ==
  {[name |-> n] : n \in {AngelicasChecking, AngelicasSavings, ANGELICA}}

\* similarities to <<1, 1>>: 1.000, 0.949, 0.707, and none when the provider failed
AccountProviderOutcomes ==
  {[threw |-> FALSE, embedding |-> v] : v \in {<<1, 1>>, <<2, 1>>, <<1, 0>>}} \cup
  {[threw |-> TRUE, embedding |-> <<>>]}

Savings ==
  <<"S", "a", "v", "i", "n", "g", "s">>

ShowAngelicaTransactions ==
  <<"S", "h", "o", "w", " ", "A", "n", "g", "e", "l", "i", "c", "a">>

\* descriptors that name an account
AccountQueries ==
  {Query("general", accountName, <<>>, "none", FALSE) :
     accountName \in {Angelica, Milk, Savings}} \cup
  {Query("semantic_search", Angelica, milk, searchType, TRUE) :
     searchType \in {"product", "store"}} \cup
  {Query("latest_receipt", Savings, milk, "store", FALSE)}

InitAccounts ==
  /\ receiptItems = <<>>
  /\ transactions = TransactionSeed
  /\ accounts = <<>>
  /\ clock = 1
  /\ ret = NoRet
  /\ chat = IdleChat
  /\ chatMessages = <<>>
  /\ runs = <<>>

NextAccounts ==
  \/ \E insertAccount \in AccountInputs, outcome \in AccountProviderOutcomes :
        createAccount(insertAccount, outcome)
  \/ \E parsed \in AccountQueries : ChatRequest(ShowAngelicaTransactions, parsed)
  \/ ChatResolveAccount
  \/ \E outcome \in ChatProviderOutcomes : ChatSemanticAccountSearch(outcome)
  \/ ChatClarifySaveUserMessage
  \/ ChatClarifySaveReply
  \/ \E outcome \in ChatProviderOutcomes : ChatDispatch(outcome)
  \/ ChatRespond
  \/ ChatSaveUserMessage
  \/ ChatSaveReply
  \/ ChatClearRequest(ClearChat)
  \/ ChatClearMessages

SpecAccounts == InitAccounts /\ [][NextAccounts]_vars

\* the handler is past account resolution
AccountResolved ==
  /\ chat.pc \in {"clarify", "clarifyReply", "dispatch", "respond", "save", "reply"}
  /\ Len(chat.query.accountName) > 0

AskedBack == chat.pc \in {"clarify", "clarifyReply"}

NamesOf(rows) == {rows[i].name : i \in 1..Len(rows)}

\* the semantic tier singles an account out: one hit, or a top hit leading by 0.15
SemanticWinner(semanticMatches) ==
  \/ Len(semanticMatches) = 1
  \/ /\ Len(semanticMatches) > 1
     /\ semanticMatches[1].similarity - semanticMatches[2].similarity >= 150

\* "Angelica" asked for; Angelica's Checking and Angelica's Savings are the
\* accounts that contain it and none equals it
AngelicaScenario ==
  /\ AccountResolved
  /\ chat.query.accountName = Angelica
  /\ Len(chat.exactMatches) = 0
  /\ Len(chat.containsMatches) = 2
  /\ NamesOf(chat.containsMatches) = {AngelicasChecking, AngelicasSavings}

\* C8 as amended: in the Angelica scenario the semantic tier is consulted; the
\* result is ambiguous, lists both accounts and selects neither unless the
\* semantic search singles one account out (one hit, or a top hit leading
\* the runner-up by 0.15), and then that account is selected.
Thm_C8_AngelicaAmbiguousUnlessSemanticWinner ==
  AngelicaScenario =>
    /\ chat.matchType \notin {"exact", "contains_single", "none"}
    /\ SemanticWinner(chat.semanticMatches) =>
         /\ chat.targetAccountId = chat.semanticMatches[1].id
         /\ ~AskedBack
    /\ ~SemanticWinner(chat.semanticMatches) =>
         /\ chat.targetAccountId = NoId
         /\ chat.matches = chat.containsMatches
         /\ AskedBack
         /\ chat.pc = "clarifyReply" => chat.response = "accountAmbiguous"

\* only one of the two accounts reaches 0.65 and it is selected
Wit_C8_OneSemanticHitSelected ==
  /\ AngelicaScenario
  /\ Len(chat.semanticMatches) = 1
  /\ chat.targetAccountId = chat.semanticMatches[1].id
  /\ chat.pc = "dispatch"

\* C8 as stated: whatever the similarities, the result is ambiguous, lists
\* both accounts and selects neither.
Orig_C8_AngelicaAlwaysAmbiguous ==
  AngelicaScenario =>
    /\ chat.targetAccountId = NoId
    /\ chat.matches = chat.containsMatches
    /\ AskedBack

\* C9: in the semantic tier with two or more hits at 0.65 or above, the top
\* hit is selected exactly when it leads the runner-up by 0.15; otherwise no
\* account is selected, no data query has run, and the request ends asking
\* back with at least two candidates.
Thm_C9_SemanticTierClearWinnerOnly ==
  (AccountResolved /\ Len(chat.semanticMatches) >= 2) =>
    LET top == chat.semanticMatches[1].similarity
        second == chat.semanticMatches[2].similarity
    IN /\ Len(chat.exactMatches) = 0
       /\ Len(chat.containsMatches) # 1
       /\ \A i \in 1..Len(chat.semanticMatches) : chat.semanticMatches[i].similarity >= 650
       /\ chat.targetAccountId # NoId => top - second >= 150
       /\ top - second >= 150 => chat.targetAccountId = chat.semanticMatches[1].id
       /\ top - second < 150 =>
            /\ chat.targetAccountId = NoId
            /\ chat.dbQueries = <<>>
            /\ AskedBack
            /\ Len(chat.matches) >= 2
            /\ chat.pc = "clarifyReply" => chat.response = "accountAmbiguous"

\* two hits 0.051 apart and no account containing the term: both are listed
Wit_C9_CloseHitsAskedBack ==
  /\ AccountResolved
  /\ chat.pc = "clarifyReply"
  /\ Len(chat.containsMatches) = 0
  /\ Len(chat.semanticMatches) = 2
  /\ chat.semanticMatches[1].similarity - chat.semanticMatches[2].similarity = 51
  /\ chat.targetAccountId = NoId
  /\ chat.response = "accountAmbiguous"
  /\ Len(chat.matches) = 2

\* C10 as amended: when account names equal the requested name
\* case-insensitively the semantic search is not consulted and the matches
\* are exactly those accounts; one such account is selected, several are
\* listed for the user to choose and none is selected.
Thm_C10_ExactMatchWinsWhenUnique ==
  (AccountResolved /\ Len(chat.exactMatches) >= 1) =>
    /\ \A i \in 1..Len(chat.exactMatches) :
         toLowerCase(chat.exactMatches[i].name) = toLowerCase(chat.query.accountName)
    /\ chat.matchType = "exact"
    /\ chat.semanticMatches = <<>>
    /\ chat.matches = chat.exactMatches
    /\ Len(chat.exactMatches) = 1 =>
         /\ chat.targetAccountId = chat.exactMatches[1].id
         /\ ~AskedBack
    /\ Len(chat.exactMatches) > 1 =>
         /\ chat.targetAccountId = NoId
         /\ AskedBack

\* ANGELICA equals "Angelica" and is selected although a second account
\* contains the name
Wit_C10_ExactSelectedOverContains ==
  /\ AccountResolved
  /\ chat.query.accountName = Angelica
  /\ Len(chat.exactMatches) = 1
  /\ chat.exactMatches[1].name = ANGELICA
  /\ Len(chat.containsMatches) = 2
  /\ chat.targetAccountId = chat.exactMatches[1].id
  /\ chat.pc = "dispatch"

\* C10 as stated: an account whose name equals the requested name is
\* selected as the single target, for every set of stored accounts.
Orig_C10_ExactMatchAlwaysSelected ==
  (AccountResolved /\ Len(chat.exactMatches) >= 1) =>
    /\ chat.targetAccountId # NoId
    /\ chat.semanticMatches = <<>>

\* C11: when no account name equals the requested name and exactly one
\* account's name contains it case-insensitively, that account is selected
\* and the semantic search is not called.
Thm_C11_SingleContainsSelected ==
  (AccountResolved /\ Len(chat.exactMatches) = 0 /\ Len(chat.containsMatches) = 1) =>
    /\ includes(toLowerCase(chat.containsMatches[1].name), toLowerCase(chat.query.accountName))
    /\ toLowerCase(chat.containsMatches[1].name) # toLowerCase(chat.query.accountName)
    /\ chat.matchType = "contains_single"
    /\ chat.semanticMatches = <<>>
    /\ chat.matches = chat.containsMatches
    /\ chat.targetAccountId = chat.containsMatches[1].id
    /\ ~AskedBack

\* "Savings" asked for with Angelica's Checking and Angelica's Savings stored
Wit_C11_SavingsOfTwoAccounts ==
  /\ AccountResolved
  /\ chat.query.accountName = Savings
  /\ Len(accounts) = 2
  /\ NamesOf(accounts) = {AngelicasChecking, AngelicasSavings}
  /\ Len(chat.containsMatches) = 1
  /\ chat.containsMatches[1].name = AngelicasSavings
  /\ chat.targetAccountId = chat.containsMatches[1].id
  /\ chat.pc = "dispatch"

\* the reply is complete
ReplyBuilt == chat.pc \in {"save", "reply"}

GroupedProductReply ==
  /\ ReplyBuilt
  /\ chat.query.queryType = "semantic_search"
  /\ chat.query.searchType # "store"
  /\ ~chat.query.isLatest
  /\ Len(chat.responseData) > 0

\* C12: a non-latest product search prints exactly one receipt block per
\* distinct transactionId among the matched items: no transaction twice, and
\* every matched item is a marked line of the one block of its transaction.
Thm_C12_OneReceiptPerTransaction ==
  GroupedProductReply =>
    /\ \A i, j \in 1..Len(chat.receipts) :
         chat.receipts[i].transactionId = chat.receipts[j].transactionId => i = j
    /\ {chat.receipts[k].transactionId : k \in 1..Len(chat.receipts)} =
       {chat.responseData[i].transactionId : i \in 1..Len(chat.responseData)}
    /\ \A i \in 1..Len(chat.responseData) :
         \E k \in 1..Len(chat.receipts) :
           /\ chat.receipts[k].transactionId = chat.responseData[i].transactionId
           /\ \E l \in 1..Len(chat.receipts[k].lines) :
                /\ chat.receipts[k].lines[l].id = chat.responseData[i].id
                /\ chat.receipts[k].lines[l].highlighted

\* three matched items ranked transaction 1, 2, 1: two blocks, the first
\* with two marked lines
Wit_C12_TwoItemsOneBlock ==
  /\ GroupedProductReply
  /\ [i \in 1..Len(chat.responseData) |-> chat.responseData[i].transactionId] = <<1, 2, 1>>
  /\ [k \in 1..Len(chat.receipts) |-> chat.receipts[k].transactionId] = <<1, 2>>
  /\ Cardinality({l \in 1..Len(chat.receipts[1].lines) :
                    chat.receipts[1].lines[l].highlighted}) = 2

LatestProductReply ==
  /\ ReplyBuilt
  /\ chat.query.queryType = "semantic_search"
  /\ chat.query.searchType # "store"
  /\ chat.query.isLatest
  /\ Len(chat.ranked) > 0

\* C13: the receipt of a latest-occurrence product query has exactly one
\* marked line, the line whose id is the id of the top-ranked match, also
\* when line items were created between the search and the receipt read.
Thm_C13_OneLineHighlighted ==
  (LatestProductReply /\ chat.response = "lastPurchase") =>
    /\ Len(chat.receipts) = 1
    /\ chat.receipts[1].transactionId = chat.ranked[1].transactionId
    /\ LET lines == chat.receipts[1].lines
       IN /\ Cardinality({l \in 1..Len(lines) : lines[l].highlighted}) = 1
          /\ \A l \in 1..Len(lines) : lines[l].highlighted <=> lines[l].id = chat.ranked[1].id

\* the receipt holds a Milk line that the search did not return: it was
\* created after the search, and it is not marked
Wit_C13_LineCreatedAfterSearch ==
  /\ LatestProductReply
  /\ chat.response = "lastPurchase"
  /\ Len(chat.receipts) = 1
  /\ \E l \in 1..Len(chat.receipts[1].lines) :
       LET line == chat.receipts[1].lines[l]
       IN /\ line.itemDescription = Milk
          /\ \A i \in 1..Len(chat.ranked) : chat.ranked[i].id # line.id
          /\ ~line.highlighted
  /\ \E l \in 1..Len(chat.receipts[1].lines) : chat.receipts[1].lines[l].highlighted

(***************************************************************************)
(* The dangling-reference specification.  createReceiptItem stores the     *)
(* transactionId it is given and bulk-upload hands a client-supplied       *)
(* transactionId to it unchecked, so line items of transaction 4, which    *)
(* is not stored, are uploaded here next to line items of transaction 1.   *)
(***************************************************************************)
DanglingReceiptInputs ==
  {<<[transactionId |-> t, itemDescription |-> Milk, itemAmount |-> 499],
     [threw |-> FALSE, embedding |-> <<1, 1>>]>> : t \in {1, 4}} \cup
  {<<[transactionId |-> 4, itemDescription |-> Bread, itemAmount |-> 0 - 1299],
     [threw |-> FALSE, embedding |-> <<3, 2>>]>>}

DanglingQueries ==
  {Query("semantic_search", <<>>, milk, "product", isLatest) : isLatest \in BOOLEAN}

NextDangling ==
  \/ \E input \in DanglingReceiptInputs : createReceiptItem(input[1], input[2], 1)
  \/ \E parsed \in DanglingQueries : ChatRequest(WhenDidILastBuyMilk, parsed)
  \/ ChatClearRequest(ClearChat)
  \/ ChatClearMessages
  \/ \E outcome \in ChatProviderOutcomes : ChatDispatch(outcome)
  \/ ChatRespond
  \/ ChatSaveUserMessage
  \/ ChatSaveReply

SpecDangling == Init /\ [][NextDangling]_vars

\* a receipt was to be reconstructed for a transaction that is not stored
TransactionMissing ==
  \E k \in 1..Len(ReceiptPlan(chat)) :
    /\ ReceiptPlan(chat)[k].branch \in {"latest", "grouped"}
    /\ Len(getTransaction(transactions, ReceiptPlan(chat)[k].transactionId)) = 0

Inv_C14_LatestSignalsGroupedSkips ==
  (ReplyBuilt /\ chat.query.queryType = "semantic_search" /\ TransactionMissing) =>
    /\ chat.query.isLatest =>
         /\ chat.response = "transactionNotFound"
         /\ chat.receipts = <<>>
    /\ ~chat.query.isLatest =>
         /\ chat.response = "productReceipts"
         /\ \A k \in 1..Len(chat.receipts) :
              Len(getTransaction(transactions, chat.receipts[k].transactionId)) = 1

(***************************************************************************)
(* The store search specification: searchTransactionsBySemantic over       *)
(* transaction tables of every shape, among them tables with more          *)
(* matching rows than the query's limit.                                   *)
(***************************************************************************)
MaxTransactions == 2

Bakery ==
  <<"B", "a", "k", "e", "r", "y">>

\* a search term with a LIKE metacharacter in it
m_lk ==
  <<"m", "_", "l", "k">>

\* twenty visits to Milk Bar on twenty different days, uploaded earlier
TwentyVisits ==
  [i \in 1..20 |->
     [id |-> i, accountId |-> 1, amount |-> 0 - 500, merchant |-> MilkBar, date |-> i - 20]]

TransactionInputs ==
  {[accountId |-> 1, amount |-> 0 - 500, merchant |-> merchant, date |-> date] :
     merchant \in {MilkBar, MILKCO, Bakery, NullText}, date \in {1, 2}}

\* the table after the rows of inserts were created on top of stored
CreatedOnto(stored, inserts) ==
  stored \o [i \in 1..Len(inserts) |-> inserts[i] @@ [id |-> Len(stored) + i]]

TransactionTables ==
  {CreatedOnto(stored, inserts) :
     stored \in {<<>>, TwentyVisits},
     inserts \in UNION {[1..n -> TransactionInputs] : n \in 0..MaxTransactions}}

StoreTerms == {milk, MILKCO, m_lk}

searchTransactionsBySemantic(searchTerm) ==
  /\ ret = NoRet
  /\ \E rows \in SearchTransactionsResults(transactions, searchTerm) :
       ret' = [op |-> "searchTransactionsBySemantic", searchTerm |-> searchTerm,
               result |-> rows]
  /\ UNCHANGED <<receiptItems, transactions, accounts, clock, chat, chatMessages, runs>>

InitStoreSearch ==
  /\ receiptItems = <<>>
  /\ transactions \in TransactionTables
  /\ accounts = AccountSeed
  /\ clock = 1
  /\ ret = NoRet
  /\ chat = IdleChat
  /\ chatMessages = <<>>
  /\ runs = <<>>

NextStoreSearch ==
  \/ \E searchTerm \in StoreTerms : searchTransactionsBySemantic(searchTerm)
  \/ Return

SpecStoreSearch == InitStoreSearch /\ [][NextStoreSearch]_vars

\* the merchant is not NULL and contains the term, letter case aside
MerchantContains(row, searchTerm) ==
  /\ row.merchant # NullText
  /\ includes(toLowerCase(row.merchant), toLowerCase(searchTerm))

HasLikeMetacharacter(searchTerm) ==
  \E i \in 1..Len(searchTerm) : searchTerm[i] \in {"%", "_", "\\"}

StoreSearchReturned == ret.op = "searchTransactionsBySemantic"

\* what the store search does guarantee: stored transactions with a
\* merchant, newest first, at most 20 of them; for a term without the LIKE
\* metacharacters they are the 20 newest (all, when there are no more) of the
\* transactions whose merchant contains the term case-insensitively
Inv_StoreSearchNewestTwentyContaining ==
  StoreSearchReturned =>
    /\ Len(ret.result) <= 20
    /\ IsDescendingByDate(ret.result)
    /\ \A i \in 1..Len(ret.result) :
         /\ ret.result[i].id \in 1..Len(transactions)
         /\ transactions[ret.result[i].id] = ret.result[i]
         /\ ret.result[i].merchant # NullText
         /\ \A j \in 1..Len(ret.result) : ret.result[i].id = ret.result[j].id => i = j
    /\ ~HasLikeMetacharacter(ret.searchTerm) =>
         /\ \A i \in 1..Len(ret.result) : MerchantContains(ret.result[i], ret.searchTerm)
         /\ \A k \in 1..Len(transactions) :
              (/\ MerchantContains(transactions[k], ret.searchTerm)
               /\ \A i \in 1..Len(ret.result) : ret.result[i].id # k) =>
                 /\ Len(ret.result) = 20
                 /\ \A i \in 1..Len(ret.result) : ret.result[i].date >= transactions[k].date

\* twenty-one visits to Milk Bar stored: the oldest is not returned
Reach_TwentyOfTwentyOne ==
  /\ StoreSearchReturned
  /\ ret.searchTerm = milk
  /\ Len(transactions) = 21
  /\ \A k \in 1..21 : transactions[k].merchant = MilkBar
  /\ Len(ret.result) = 20
  /\ \A i \in 1..20 : ret.result[i].id # 1

\* C16 as stated: the store search returns exactly the transactions whose
\* merchant contains the term case-insensitively, for any number of stored
\* transactions.
Orig_C16_StoreSearchExactlyContaining ==
  StoreSearchReturned =>
    {ret.result[i].id : i \in 1..Len(ret.result)} =
    {k \in 1..Len(transactions) : MerchantContains(transactions[k], ret.searchTerm)}

(***************************************************************************)
(* The store receipt specification: getLatestReceiptFromStore while line   *)
(* items are uploaded for the stored transactions.                         *)
(***************************************************************************)
StoreReceiptInputs ==
  {[accountId |-> 1, amount |-> 0 - 500, merchant |-> merchant, date |-> date] :
     merchant \in {MILKCO, Bakery}, date \in {1, 2}}

StoreReceiptTables ==
  {CreatedOnto(<<>>, inserts) :
     inserts \in UNION {[1..n -> StoreReceiptInputs] : n \in 0..MaxTransactions}}

\* the two reads of the function are one step: no transaction is created
\* in this specification
getLatestReceiptFromStore(searchTerm) ==
  /\ ret = NoRet
  /\ \E rows \in GetLatestReceiptResults(transactions, receiptItems, searchTerm) :
       ret' = [op |-> "getLatestReceiptFromStore", searchTerm |-> searchTerm,
               result |-> rows]
  /\ UNCHANGED <<receiptItems, transactions, accounts, clock, chat, chatMessages, runs>>

InitStoreReceipt ==
  /\ receiptItems = <<>>
  /\ transactions \in StoreReceiptTables
  /\ accounts = AccountSeed
  /\ clock = 1
  /\ ret = NoRet
  /\ chat = IdleChat
  /\ chatMessages = <<>>
  /\ runs = <<>>

NextStoreReceipt ==
  \/ \E t \in 1..Len(transactions), dt \in {0, 1} :
        createReceiptItem([transactionId |-> t, itemDescription |-> Milk, itemAmount |-> 499],
                          [threw |-> FALSE, embedding |-> <<1, 1>>], dt)
  \/ \E searchTerm \in {milk, m_lk} : getLatestReceiptFromStore(searchTerm)
  \/ Return

SpecStoreReceipt == InitStoreReceipt /\ [][NextStoreReceipt]_vars

LatestReceiptReturned == ret.op = "getLatestReceiptFromStore"

\* result is the line items of transaction k, each once, oldest first
IsReceiptOf(result, k) ==
  /\ \A i \in 1..Len(result) : result[i].transactionId = k
  /\ \A j \in 1..Len(receiptItems) :
       receiptItems[j].transactionId = k =>
         Cardinality({i \in 1..Len(result) : result[i] = receiptItems[j]}) = 1
  /\ Len(result) = Cardinality({j \in 1..Len(receiptItems) : receiptItems[j].transactionId = k})
  /\ IsAscendingByCreatedAt(result)

\* the answer is the receipt of a newest transaction among those numbered in
\* matching, and empty when there is none
IsLatestReceiptAmong(result, matching) ==
  IF matching = {} THEN result = <<>>
  ELSE \E k \in matching :
         /\ \A j \in matching : transactions[k].date >= transactions[j].date
         /\ IsReceiptOf(result, k)

\* C15 as stated: getLatestReceiptFromStore(term) returns the line items,
\* oldest first, of the transaction of greatest date among those whose
\* merchant contains term case-insensitively, and nothing when there is none.
Orig_C15_LatestReceiptOfContainingStore ==
  LatestReceiptReturned =>
    IsLatestReceiptAmong(ret.result,
      {k \in 1..Len(transactions) : MerchantContains(transactions[k], ret.searchTerm)})

\* what the function does guarantee: the same with the LIKE pattern in place
\* of containment, which for "milk" is containment
Inv_LatestReceiptOfLikeStore ==
  LatestReceiptReturned =>
    /\ IsLatestReceiptAmong(ret.result,
         {k \in 1..Len(transactions) : MerchantLike(transactions[k].merchant, ret.searchTerm)})
    /\ ret.searchTerm = milk =>
         IsLatestReceiptAmong(ret.result,
           {k \in 1..Len(transactions) : MerchantContains(transactions[k], ret.searchTerm)})

\* two visits to MILK CO on the same day, the receipt of one of them returned
Reach_LatestOfTwoSameDay ==
  /\ LatestReceiptReturned
  /\ ret.searchTerm = milk
  /\ Len(transactions) = 2
  /\ transactions[1].merchant = MILKCO /\ transactions[2].merchant = MILKCO
  /\ transactions[1].date = transactions[2].date
  /\ Len(ret.result) = 2
  /\ \E j \in 1..Len(receiptItems) : receiptItems[j].transactionId # ret.result[1].transactionId

(***************************************************************************)
(* The similarity function on its own.  One row is stored with an          *)
(* embedding of any length up to MaxDim (a failed provider call stores     *)
(* []), and cosineSimilarity is applied to it and a query vector, in both  *)
(* argument orders; the matcher scores the same row with threshold 0.      *)
(***************************************************************************)
MaxDim == 2

Components == {0 - 1, 0, 1, 2}

CosineVectors == UNION {[1..n -> Components] : n \in 0..MaxDim}

cosineSimilarityCall(a) ==
  LET b == receiptItems[1].embedding
  IN /\ ret = NoRet
     /\ ret' = [op |-> "cosineSimilarity", a |-> a, b |-> b,
                result |-> cosineSimilarity(a, b),
                reversed |-> cosineSimilarity(b, a),
                scored |-> WithSimilarity(receiptItems[1], a)]
     /\ UNCHANGED <<receiptItems, transactions, accounts, clock, chat, chatMessages, runs>>

InitCosine ==
  /\ \E b \in CosineVectors :
       receiptItems = <<[id |-> 1, transactionId |-> 1, itemDescription |-> Milk,
                         itemAmount |-> 499, embedding |-> b, createdAt |-> 1]>>
  /\ transactions = TransactionSeed
  /\ accounts = AccountSeed
  /\ clock = 1
  /\ ret = NoRet
  /\ chat = IdleChat
  /\ chatMessages = <<>>
  /\ runs = <<>>

NextCosine ==
  \/ \E a \in CosineVectors : cosineSimilarityCall(a)
  \/ \E a \in CosineVectors :
       searchReceiptItemsBySemantic(milk, 0, [threw |-> FALSE, embedding |-> a])
  \/ Return

SpecCosine == InitCosine /\ [][NextCosine]_vars

\* C17: vectors of different lengths score exactly 0, and the matcher gives
\* a stored row whose embedding length differs from the query's similarity 0
Thm_C17_LengthMismatchScoresZero ==
  /\ (ret.op = "cosineSimilarity" /\ Len(ret.a) # Len(ret.b))
       => ret.result = 0 /\ ret.reversed = 0 /\ ret.scored.similarity = 0
  /\ (ret.op = "searchReceiptItemsBySemantic" /\ ret.rowsCompared = 1
        /\ Len(ret.searchEmbedding) # Len(receiptItems[1].embedding))
       => /\ ~ret.exception
          /\ Len(ret.result) = 1
          /\ ret.result[1].id = receiptItems[1].id
          /\ ret.result[1].similarity = 0

Wit_C17_ShorterRowAgainstQuery ==
  /\ ret.op = "searchReceiptItemsBySemantic"
  /\ ret.searchEmbedding = <<1, 1>>
  /\ receiptItems[1].embedding = <<1>>
  /\ Len(ret.result) = 1
  /\ ret.result[1].similarity = 0

\* C18: for vectors of equal length the result does not depend on the order
\* of the two arguments
Thm_C18_Symmetric ==
  (ret.op = "cosineSimilarity" /\ Len(ret.a) = Len(ret.b))
    => ret.result = ret.reversed

Wit_C18_DistinctVectorsSameScore ==
  /\ ret.op = "cosineSimilarity"
  /\ ret.a = <<1, 2>>
  /\ ret.b = <<2, 1>>
  /\ ret.result = ret.reversed
  /\ ret.result = 800

(***************************************************************************)
(* The matcher over a shelf of banana products.  Against the query vector  *)
(* <<1, 2>> the three stored vectors score 0.910, 0.890 and 0.843: the     *)
(* first two and the last two are within 0.05 of each other, the first and *)
(* the last are not.                                                       *)
(***************************************************************************)
OrganicBananas ==
  <<"O", "r", "g", "a", "n", "i", "c", " ", "B", "a", "n", "a", "n", "a", "s">>

BananaChips ==
  <<"B", "a", "n", "a", "n", "a", " ", "C", "h", "i", "p", "s">>

BananaBread ==
  <<"B", "a", "n", "a", "n", "a", " ", "B", "r", "e", "a", "d">>

banana == <<"b", "a", "n", "a", "n", "a">>

BananaQueryVector == <<1, 2>>

\* a line item and the vector the provider answers for its description
BananaInputs ==
  {[insertItem |-> [transactionId |-> 1, itemDescription |-> OrganicBananas, itemAmount |-> 299],
    embedding |-> <<21, 17>>],
   [insertItem |-> [transactionId |-> 1, itemDescription |-> BananaChips, itemAmount |-> 349],
    embedding |-> <<19, 14>>],
   [insertItem |-> [transactionId |-> 2, itemDescription |-> BananaBread, itemAmount |-> 450],
    embedding |-> <<5, 3>>]}

NextBananas ==
  \/ \E input \in BananaInputs, dt \in {0, 1} :
       createReceiptItem(input.insertItem, [threw |-> FALSE, embedding |-> input.embedding], dt)
  \/ searchReceiptItemsBySemantic(banana, 500, [threw |-> FALSE, embedding |-> BananaQueryVector])
  \/ Return

SpecBananas == Init /\ [][NextBananas]_vars

BananaSearchReturned ==
  /\ ret.op = "searchReceiptItemsBySemantic"
  /\ ret.threshold = 500
  /\ ret.searchEmbedding = BananaQueryVector

\* the store holds Organic Bananas and, created later, Banana Chips, and nothing else
BananaScenario ==
  /\ Len(receiptItems) = 2
  /\ receiptItems[1].itemDescription = OrganicBananas
  /\ receiptItems[2].itemDescription = BananaChips
  /\ receiptItems[1].createdAt < receiptItems[2].createdAt

\* C19: with Organic Bananas (0.91, older) and Banana Chips (0.89, newer)
\* stored and threshold 0.5, both are returned, Banana Chips first, in
\* whichever order the rows were delivered
Thm_C19_BananaChipsFirst ==
  (BananaSearchReturned /\ BananaScenario)
    => /\ Len(ret.result) = 2
       /\ ret.result[1].itemDescription = BananaChips
       /\ ret.result[1].similarity = 890
       /\ ret.result[2].itemDescription = OrganicBananas
       /\ ret.result[2].similarity = 910
       /\ \A r \in SearchReceiptItemsResults(receiptItems, banana, 500, ret.provider) :
            r.result = ret.result

Wit_C19_ChipsThenOrganic ==
  /\ BananaSearchReturned
  /\ BananaScenario
  /\ Len(ret.result) = 2
  /\ ret.result[1].id = 2
  /\ ret.result[2].id = 1

\* C20 as stated: a second run of the same search over the same rows, with
\* the rows delivered in another order, returns the same list
Orig_C20_SameOrderWhateverDelivery ==
  (ret.op = "searchReceiptItemsBySemantic" /\ ~ret.exception)
    => \A r \in SearchReceiptItemsResults(receiptItems, banana, ret.threshold, ret.provider) :
         r.result = ret.result

\* the same, for rows none of which share a creation time
SameOrderUnderDistinctCreationTimes ==
  (/\ ret.op = "searchReceiptItemsBySemantic"
   /\ ~ret.exception
   /\ \A i, j \in 1..Len(receiptItems) :
        i # j => receiptItems[i].createdAt # receiptItems[j].createdAt)
    => \A r \in SearchReceiptItemsResults(receiptItems, banana, ret.threshold, ret.provider) :
         r.result = ret.result

(***************************************************************************)
(* The latest store visit                                                  *)
(***************************************************************************)
LatestStoreReply ==
  /\ ReplyBuilt
  /\ chat.query.queryType = "semantic_search"
  /\ chat.query.searchType = "store"
  /\ chat.query.isLatest
  /\ Len(chat.ranked) > 0

\* C21 as amended: a latest-occurrence query in store mode is answered with
\* the last-visit summary of the single selected transaction, the first of
\* the store search's list; no line item is read and no receipt is built.
Thm_C21_LatestStoreVisitIsSummary ==
  LatestStoreReply =>
    /\ chat.responseData = <<chat.ranked[1]>>
    /\ chat.response = "lastVisit"
    /\ chat.receipts = <<>>
    /\ chat.cursor = 0

\* the selected transaction has line items stored, and the reply has no receipt
Wit_C21_VisitWithItemsNoReceipt ==
  /\ LatestStoreReply
  /\ Len(chat.ranked) = 2
  /\ \E i \in 1..Len(receiptItems) : receiptItems[i].transactionId = chat.ranked[1].id
  /\ chat.response = "lastVisit"
  /\ chat.receipts = <<>>

\* C21 as stated: the reply to a latest-occurrence query in store mode is one
\* reconstructed receipt, the line items and computed total of the selected
\* transaction, as in product mode.
Orig_C21_LatestStoreVisitIsReceipt ==
  LatestStoreReply =>
    /\ Len(chat.receipts) = 1
    /\ chat.receipts[1].transactionId = chat.ranked[1].id
    /\ chat.receipts[1].total = LinesTotal(chat.receipts[1].lines)

\* C22 as stated: the first row the matcher returns is at least as recent as
\* every other returned row whose similarity is within 0.05 of its own
Orig_C22_FirstIsNewestOfItsClose ==
  (ret.op = "searchReceiptItemsBySemantic" /\ ~ret.exception /\ Len(ret.result) > 0)
    => \A i \in 2..Len(ret.result) :
         Abs(ret.result[i].similarity - ret.result[1].similarity) <= 50
           => ret.result[1].createdAt >= ret.result[i].createdAt

\* the zero vector of the model's dimension: its norm is 0
ZeroVector == <<0, 0>>

\* C24: a row whose similarity to the query is not a number (its embedding or
\* the query's is a zero vector) is left out of the result, and the list
\* that is sorted, of which the result is a rearrangement, holds no such row
Thm_C24_NonFiniteIsNoMatch ==
  (ret.op = "searchReceiptItemsBySemantic" /\ ~ret.exception /\ ret.rowsCompared > 0)
    => /\ \A i \in 1..Len(ret.result) : ~IsNaN(ret.result[i].similarity)
       /\ \A j \in 1..Len(receiptItems) :
            (receiptItems[j].embedding = ZeroVector \/ ret.searchEmbedding = ZeroVector)
              => \A i \in 1..Len(ret.result) : ret.result[i].id # receiptItems[j].id
       /\ ret.searchEmbedding = ZeroVector => ret.result = <<>>

\* two rows were sorted and returned while a third, stored with a zero
\* vector, was left out
Wit_C24_ZeroVectorRowLeftOut ==
  /\ ret.op = "searchReceiptItemsBySemantic"
  /\ ret.rowsCompared = 3
  /\ Len(ret.result) = 2
  /\ \E j \in 1..Len(receiptItems) :
       /\ receiptItems[j].embedding = ZeroVector
       /\ IsNaN(cosineSimilarity(ret.searchEmbedding, receiptItems[j].embedding))
       /\ \A i \in 1..Len(ret.result) : ret.result[i].id # receiptItems[j].id

(***************************************************************************)
(* The receipt-item backfill script (scripts/update_embeddings.ts).  Rows  *)
(* stored before embeddings existed hold NULL.  A run of the script is a   *)
(* process: it selects the rows whose embedding IS NULL, then for each of  *)
(* them awaits the provider and, when the answer is not empty, updates the *)
(* row by id.  Runs may overlap each other and createReceiptItem.  runs    *)
(* holds the locals of every run started so far.                           *)
(***************************************************************************)
MaxRuns == 2

MaxLegacy == 1

\* a row stored before embeddings were introduced
LegacyItem(id) ==
  [id |-> id, transactionId |-> 1, itemDescription |-> Milk, itemAmount |-> 499,
   embedding |-> NULL, createdAt |-> 0]

LegacyTables == {[i \in 1..n |-> LegacyItem(i)] : n \in 0..MaxLegacy}

BackfillReceiptInputs ==
  {[transactionId |-> 1, itemDescription |-> Bread, itemAmount |-> 1299]}

\* the provider at row creation: an answer, or a failure
CreationOutcomes ==
  {[threw |-> FALSE, embedding |-> <<1, 1>>], [threw |-> TRUE, embedding |-> <<>>]}

\* the provider during a run of the script
BackfillOutcomes ==
  {[threw |-> FALSE, embedding |-> <<1, 1>>], [threw |-> FALSE, embedding |-> <<3, 2>>],
   [threw |-> TRUE, embedding |-> <<>>]}

\* where(embedding IS NULL)
WhereEmbeddingIsNull(rows) ==
  LET IsNull(row) == row.embedding = NULL
  IN SelectSeq(rows, IsNull)

\* the loop moves to the next selected row, or past the last one
NextItem(run) ==
  [run EXCEPT !.i = @ + 1,
              !.embedding = <<>>,
              !.pc = IF run.i + 1 > Len(run.items) THEN "verify" ELSE "generate"]

updateEmbeddingsSelect ==
  /\ ret = NoRet
  /\ Len(runs) < MaxRuns
  /\ \E items \in DeliveryOrders(WhereEmbeddingIsNull(receiptItems)) :
       runs' = Append(runs,
                 [op |-> "updateEmbeddings",
                  pc |-> IF Len(items) = 0 THEN "verify" ELSE "generate",
                  items |-> items, i |-> 1, embedding |-> <<>>,
                  stored |-> Len(receiptItems), providerFailed |-> FALSE])
  /\ UNCHANGED <<receiptItems, transactions, accounts, clock, ret, chat, chatMessages>>

updateEmbeddingsGenerate(r, outcome) ==
  /\ ret = NoRet
  /\ r \in 1..Len(runs)
  /\ runs[r].op = "updateEmbeddings"
  /\ runs[r].pc = "generate"
  /\ LET run == runs[r]
         embedding == generateEmbedding(run.items[run.i].itemDescription, outcome)
     IN runs' = [runs EXCEPT ![r] =
                   IF embedding.threw
                   THEN [NextItem(run) EXCEPT !.providerFailed = TRUE]
                   ELSE IF Len(embedding.value) > 0
                   THEN [run EXCEPT !.pc = "update", !.embedding = embedding.value]
                   ELSE [NextItem(run) EXCEPT !.providerFailed = TRUE]]
  /\ UNCHANGED <<receiptItems, transactions, accounts, clock, ret, chat, chatMessages>>

\* update ... set embedding where id = item.id
updateEmbeddingsUpdate(r) ==
  /\ ret = NoRet
  /\ r \in 1..Len(runs)
  /\ runs[r].op = "updateEmbeddings"
  /\ runs[r].pc = "update"
  /\ LET run == runs[r]
     IN /\ receiptItems' =
             [k \in 1..Len(receiptItems) |->
                IF receiptItems[k].id = run.items[run.i].id
                THEN [receiptItems[k] EXCEPT !.embedding = run.embedding]
                ELSE receiptItems[k]]
        /\ runs' = [runs EXCEPT ![r] = NextItem(run)]
  /\ UNCHANGED <<transactions, accounts, clock, ret, chat, chatMessages>>

\* the closing count of rows that now have an embedding, and the exit
updateEmbeddingsVerify(r) ==
  /\ ret = NoRet
  /\ r \in 1..Len(runs)
  /\ runs[r].op = "updateEmbeddings"
  /\ runs[r].pc = "verify"
  /\ runs' = [runs EXCEPT ![r].pc = "done"]
  /\ UNCHANGED <<receiptItems, transactions, accounts, clock, ret, chat, chatMessages>>

BackfillThresholds == {0, 500}

InitBackfill ==
  /\ receiptItems \in LegacyTables
  /\ transactions = TransactionSeed
  /\ accounts = AccountSeed
  /\ clock = 1
  /\ ret = NoRet
  /\ chat = IdleChat
  /\ chatMessages = <<>>
  /\ runs = <<>>

NextBackfill ==
  \/ \E insertItem \in BackfillReceiptInputs, outcome \in CreationOutcomes :
       createReceiptItem(insertItem, outcome, 1)
  \/ updateEmbeddingsSelect
  \/ \E r \in 1..MaxRuns, outcome \in BackfillOutcomes : updateEmbeddingsGenerate(r, outcome)
  \/ \E r \in 1..MaxRuns : updateEmbeddingsUpdate(r)
  \/ \E r \in 1..MaxRuns : updateEmbeddingsVerify(r)

SpecBackfill == InitBackfill /\ [][NextBackfill]_vars

\* the matcher over a table that holds rows from before the embeddings,
\* rows created while the provider failed and rows with an embedding
NextLegacy ==
  \/ \E insertItem \in BackfillReceiptInputs, outcome \in CreationOutcomes, dt \in {0, 1} :
       createReceiptItem(insertItem, outcome, dt)
  \/ \E threshold \in BackfillThresholds, v \in {<<1, 1>>, <<3, 2>>} :
       searchReceiptItemsBySemantic(milk, threshold, [threw |-> FALSE, embedding |-> v])
  \/ Return

SpecLegacy == InitBackfill /\ [][NextLegacy]_vars

\* the similarity the matcher owes a stored row for the query of the last search
ScoreOwed(row) ==
  IF row.embedding = NULL THEN 0 ELSE cosineSimilarity(ret.searchEmbedding, row.embedding)

IsMatch(row) == GreaterEq(ScoreOwed(row), ret.threshold)

\* C23: the matcher returns every stored row whose similarity is at least the
\* threshold exactly once and no other row, each with the fields of the
\* stored row and its computed similarity; a row without an embedding is
\* scored 0
Thm_C23_ResultIsTheFilteredCollection ==
  (ret.op = "searchReceiptItemsBySemantic" /\ ~ret.exception /\ ret.searchEmbedding # <<>>)
    => /\ \A j \in 1..Len(receiptItems) :
            Cardinality({i \in 1..Len(ret.result) : ret.result[i].id = receiptItems[j].id})
              = IF IsMatch(receiptItems[j]) THEN 1 ELSE 0
       /\ \A i \in 1..Len(ret.result) :
            \E j \in 1..Len(receiptItems) :
              /\ \A f \in DOMAIN receiptItems[j] : ret.result[i][f] = receiptItems[j][f]
              /\ DOMAIN ret.result[i] = DOMAIN receiptItems[j] \cup {"similarity"}
              /\ ret.result[i].similarity = ScoreOwed(receiptItems[j])
              /\ receiptItems[j].embedding = NULL => ret.result[i].similarity = 0

\* with threshold 0, a row that never had an embedding is returned with
\* similarity 0 next to a row that matches the query fully
Wit_C23_RowWithoutEmbeddingScoredZero ==
  /\ ret.op = "searchReceiptItemsBySemantic"
  /\ ret.threshold = 0
  /\ Len(ret.result) = Len(receiptItems)
  /\ \E i, k \in 1..Len(ret.result) :
       /\ ret.result[i].embedding = NULL
       /\ ret.result[i].similarity = 0
       /\ ret.result[k].embedding = <<1, 1>>
       /\ ret.result[k].similarity = 1000

HasEmbedding(row) == row.embedding # NULL /\ row.embedding # <<>>

\* C25 as stated, for receipt items: a row that holds a non-empty embedding
\* keeps it in every step
Orig_C25_EmbeddingWrittenOnce ==
  [][\A k \in 1..Len(receiptItems) :
       HasEmbedding(receiptItems[k]) => receiptItems'[k].embedding = receiptItems[k].embedding]_vars

\* a run of the script that is over and in which no provider call failed
RunCompleted(r) ==
  /\ runs[r].op = "updateEmbeddings"
  /\ runs[r].pc = "done"
  /\ ~runs[r].providerFailed

\* C29 as stated: after a run of the backfill in which every provider call
\* succeeded, every receipt item that was stored when the run began has a
\* non-empty embedding
Orig_C29_BackfillLeavesNoItemWithout ==
  \A r \in 1..Len(runs) :
    RunCompleted(r) => \A k \in 1..runs[r].stored : HasEmbedding(receiptItems[k])

\* what the backfill does guarantee: no row that was stored when such a run
\* began still holds NULL
Inv_BackfillLeavesNoNull ==
  \A r \in 1..Len(runs) :
    RunCompleted(r) => \A k \in 1..runs[r].stored : receiptItems[k].embedding # NULL

\* a completed run has given a legacy row its embedding
Reach_LegacyRowBackfilled ==
  \E r \in 1..Len(runs) :
    /\ RunCompleted(r)
    /\ Len(runs[r].items) = 1
    /\ HasEmbedding(receiptItems[1])

(***************************************************************************)
(* createTransaction and the account balance.  A call is a process with    *)
(* three awaits after the embedding: the insert, the select that sums the  *)
(* account's transactions (calculateAccountBalance) and the update that    *)
(* stores the sum (updateAccountBalance).  Calls may overlap.              *)
(***************************************************************************)
RECURSIVE SumAmounts(_, _)
SumAmounts(rows, accountId) ==
  IF Len(rows) = 0 THEN 0
  ELSE (IF Head(rows).accountId = accountId THEN Head(rows).amount ELSE 0)
       + SumAmounts(Tail(rows), accountId)

calculateAccountBalance(rows, accountId) == SumAmounts(rows, accountId)

\* the accounts with the balance column, as the stored transactions give it
AccountSeedWithBalance ==
  [i \in 1..Len(AccountSeed) |->
     AccountSeed[i] @@ [balance |-> SumAmounts(TransactionSeed, AccountSeed[i].id)]]

CoffeeShop == <<"C", "o", "f", "f", "e", "e">>

InsertTransactions ==
  {[accountId |-> a, amount |-> amount, merchant |-> CoffeeShop] :
     a \in {1, 2}, amount \in {0 - 300, 700}}

\* transactions.account_id references accounts.id
AccountExists(accountId) == \E k \in 1..Len(accounts) : accounts[k].id = accountId

createTransactionCall(insertTransaction, after) ==
  /\ Len(runs) < MaxRuns
  /\ runs' = Append(runs, [op |-> "createTransaction", pc |-> "insert",
                           insertTransaction |-> insertTransaction,
                           accountId |-> insertTransaction.accountId,
                           id |-> NoId, newBalance |-> 0, after |-> after])
  /\ UNCHANGED <<receiptItems, transactions, accounts, clock, ret, chat, chatMessages>>

\* generateEmbedding, then insert ... returning
createTransactionInsert(r, outcome) ==
  /\ r \in 1..Len(runs)
  /\ runs[r].pc = "insert"
  /\ AccountExists(runs[r].accountId)
  /\ LET run == runs[r]
         embedding == generateEmbedding(run.insertTransaction.merchant, outcome)
         id == Len(transactions) + 1
     IN /\ transactions' = Append(transactions,
               run.insertTransaction @@
                 [id |-> id, date |-> clock + 1, embedding |-> embedding.value])
        /\ runs' = [runs EXCEPT ![r].pc = "calculate", ![r].id = id]
  /\ clock' = clock + 1
  /\ UNCHANGED <<receiptItems, accounts, ret, chat, chatMessages>>

\* recalculateAccountBalance, first await: the select and the sum
createTransactionCalculate(r) ==
  /\ r \in 1..Len(runs)
  /\ runs[r].pc = "calculate"
  /\ runs' = [runs EXCEPT
                ![r].pc = "update",
                ![r].newBalance =
                   calculateAccountBalance(transactions, runs[r].accountId)]
  /\ UNCHANGED <<receiptItems, transactions, accounts, clock, ret, chat, chatMessages>>

\* recalculateAccountBalance, second await: the update of the balance
createTransactionUpdate(r) ==
  /\ r \in 1..Len(runs)
  /\ runs[r].pc = "update"
  /\ accounts' =
       [k \in 1..Len(accounts) |->
          IF accounts[k].id = runs[r].accountId
          THEN [accounts[k] EXCEPT !.balance = runs[r].newBalance]
          ELSE accounts[k]]
  /\ runs' = [runs EXCEPT ![r].pc = runs[r].after]
  /\ UNCHANGED <<receiptItems, transactions, clock, ret, chat, chatMessages>>

InitBalances ==
  /\ receiptItems = <<>>
  /\ transactions = TransactionSeed
  /\ accounts = AccountSeedWithBalance
  /\ clock = 3
  /\ ret = NoRet
  /\ chat = IdleChat
  /\ chatMessages = <<>>
  /\ runs = <<>>

NextBalances ==
  \/ \E insertTransaction \in InsertTransactions : createTransactionCall(insertTransaction, "done")
  \/ \E r \in 1..MaxRuns, outcome \in CreationOutcomes : createTransactionInsert(r, outcome)
  \/ \E r \in 1..MaxRuns : createTransactionCalculate(r)
  \/ \E r \in 1..MaxRuns : createTransactionUpdate(r)

SpecBalances == InitBalances /\ [][NextBalances]_vars

AllCallsCompleted ==
  /\ Len(runs) > 0
  /\ \A r \in 1..Len(runs) : runs[r].pc = "done"

\* C27 as stated: once every createTransaction call has completed, each
\* account's balance is the sum of the amounts of its stored transactions
Orig_C27_BalanceIsSumOfAmounts ==
  AllCallsCompleted =>
    \A k \in 1..Len(accounts) : accounts[k].balance = SumAmounts(transactions, accounts[k].id)

\* calls that do not overlap leave the balance right: here every call has
\* stored the sum of the rows that were in the table when it ended
Reach_TwoCallsBalanceRight ==
  /\ AllCallsCompleted
  /\ Len(runs) = 2
  /\ runs[1].insertTransaction.accountId = runs[2].insertTransaction.accountId
  /\ \A k \in 1..Len(accounts) : accounts[k].balance = SumAmounts(transactions, accounts[k].id)

(***************************************************************************)
(* The upload routes.  /api/data/account-upload creates one transaction    *)
(* and then its receipt items under the id the insert returned;            *)
(* /api/data/bulk-upload creates the transactions of the payload, then the *)
(* receipt items, each naming its transaction by id or by the description  *)
(* of a transaction of the same payload.  Every insert is wrapped in a     *)
(* try / catch that records the error and goes on.  The definition of the  *)
(* receipt_items table is not part of the sources at hand; its foreign key *)
(* is taken from the data model: a line item belongs to exactly one        *)
(* transaction, foreign key required, not nullable.                        *)
(***************************************************************************)
\* receipt_items.transaction_id references transactions.id
ForeignKeyNotEnforced(transactionId) == TRUE

ForeignKeyHolds(transactionId) ==
  \E t \in 1..Len(transactions) : transactions[t].id = transactionId

\* the row an insert into receipt_items stores
ReceiptItemRow(insertItem, embedding) ==
  [id |-> Len(receiptItems) + 1,
   transactionId |-> insertItem.transactionId,
   itemDescription |-> insertItem.itemDescription,
   itemAmount |-> insertItem.itemAmount,
   embedding |-> embedding,
   createdAt |-> clock + 1]

VisitDescription == "Coffee - Food"

NoRef == "none"

\* receiptData of a bulk upload: a transaction named by description, or by id
BulkReceiptData ==
  {[transactionRef |-> ref, transactionId |-> NoId, itemDescription |-> Milk, itemAmount |-> 499] :
     ref \in {VisitDescription, "Bakery - Food"}} \cup
  {[transactionRef |-> NoRef, transactionId |-> id, itemDescription |-> Milk, itemAmount |-> 499] :
     id \in {1, 4}}

UploadRun(op, pc, accountId, after, items) ==
  [op |-> op, pc |-> pc,
   insertTransaction |-> [accountId |-> accountId, amount |-> 0 - 300, merchant |-> CoffeeShop],
   accountId |-> accountId, id |-> NoId, newBalance |-> 0, after |-> after,
   items |-> items, errors |-> 0, account |-> 0]

MaxUploads == 1

\* room in the model's tables for one more transaction, one more line item
TransactionsTableHasRoom == Len(transactions) < Len(TransactionSeed) + MaxUploads

ReceiptItemsTableHasRoom == Len(receiptItems) < MaxUploads + 1

accountUploadRequest(accountId, items) ==
  /\ Len(runs) < MaxUploads
  /\ TransactionsTableHasRoom
  /\ runs' = Append(runs, UploadRun("accountUpload", "insert", accountId, "items", items))
  /\ UNCHANGED <<receiptItems, transactions, accounts, clock, ret, chat, chatMessages>>

bulkUploadRequest(hasTransaction, receiptData) ==
  /\ Len(runs) < MaxUploads
  /\ TransactionsTableHasRoom
  /\ runs' = Append(runs, UploadRun("bulkUpload",
                                    IF hasTransaction THEN "insert" ELSE "bulkItems",
                                    1, "bulkItems", <<receiptData>>))
  /\ UNCHANGED <<receiptItems, transactions, accounts, clock, ret, chat, chatMessages>>

\* the insert of the transaction fails: the catch records it and the items
\* of the transaction are not reached
uploadTransactionRejected(r) ==
  /\ r \in 1..Len(runs)
  /\ runs[r].op \in {"accountUpload", "bulkUpload"}
  /\ runs[r].pc = "insert"
  /\ ~AccountExists(runs[r].accountId)
  /\ runs' = [runs EXCEPT ![r].errors = @ + 1,
                          ![r].pc = IF runs[r].op = "bulkUpload" THEN "bulkItems" ELSE "finish"]
  /\ UNCHANGED <<receiptItems, transactions, accounts, clock, ret, chat, chatMessages>>

\* one receipt item of the created transaction
accountUploadItem(r, outcome) ==
  /\ r \in 1..Len(runs)
  /\ runs[r].op = "accountUpload"
  /\ runs[r].pc = "items"
  /\ ReceiptItemsTableHasRoom
  /\ LET run == runs[r]
         insertItem == Head(run.items) @@ [transactionId |-> run.id]
         embedding == generateEmbedding(insertItem.itemDescription, outcome)
         rest == Tail(run.items)
     IN /\ IF ForeignKeyHolds(insertItem.transactionId)
           THEN /\ receiptItems' = Append(receiptItems, ReceiptItemRow(insertItem, embedding.value))
                /\ runs' = [runs EXCEPT ![r].items = rest,
                                        ![r].pc = IF Len(rest) = 0 THEN "finish" ELSE "items"]
           ELSE /\ receiptItems' = receiptItems
                /\ runs' = [runs EXCEPT ![r].items = rest,
                                        ![r].errors = @ + 1,
                                        ![r].pc = IF Len(rest) = 0 THEN "finish" ELSE "items"]
  /\ clock' = clock + 1
  /\ UNCHANGED <<transactions, accounts, ret, chat, chatMessages>>

\* transactionMap.get(receiptData.transactionRef): the map holds the
\* transactions this upload has created, by description
TransactionMapGet(run, transactionRef) ==
  IF run.id # NoId /\ transactionRef = VisitDescription THEN run.id ELSE NoId

\* one receipt item of a bulk upload
bulkUploadItem(r, outcome) ==
  /\ r \in 1..Len(runs)
  /\ runs[r].op = "bulkUpload"
  /\ runs[r].pc = "bulkItems"
  /\ ReceiptItemsTableHasRoom
  /\ LET run == runs[r]
         receiptData == Head(run.items)
         byRef == receiptData.transactionRef # NoRef /\ receiptData.transactionId = NoId
         transactionId == IF byRef THEN TransactionMapGet(run, receiptData.transactionRef)
                          ELSE receiptData.transactionId
         insertItem == [transactionId |-> transactionId,
                        itemDescription |-> receiptData.itemDescription,
                        itemAmount |-> receiptData.itemAmount]
         embedding == generateEmbedding(insertItem.itemDescription, outcome)
     IN IF byRef /\ transactionId = NoId
        THEN /\ runs' = [runs EXCEPT ![r].items = Tail(@), ![r].errors = @ + 1,
                                     ![r].pc = "finish"]
             /\ UNCHANGED <<receiptItems, clock>>
        ELSE IF ForeignKeyHolds(transactionId)
        THEN /\ receiptItems' = Append(receiptItems, ReceiptItemRow(insertItem, embedding.value))
             /\ clock' = clock + 1
             /\ runs' = [runs EXCEPT ![r].items = Tail(@), ![r].pc = "finish"]
        ELSE /\ runs' = [runs EXCEPT ![r].items = Tail(@), ![r].errors = @ + 1,
                                     ![r].pc = "finish"]
             /\ UNCHANGED <<receiptItems, clock>>
  /\ UNCHANGED <<transactions, accounts, ret, chat, chatMessages>>

\* after the loops: the balances are recalculated when a transaction was created
uploadFinish(r) ==
  /\ r \in 1..Len(runs)
  /\ runs[r].op \in {"accountUpload", "bulkUpload"}
  /\ runs[r].pc = "finish"
  /\ runs' = [runs EXCEPT ![r] =
                IF runs[r].id = NoId THEN [@ EXCEPT !.pc = "done"]
                ELSE IF runs[r].op = "accountUpload"
                THEN [@ EXCEPT !.pc = "calculate", !.after = "done"]
                ELSE [@ EXCEPT !.pc = "recalculateAll", !.account = 0]]
  /\ UNCHANGED <<receiptItems, transactions, accounts, clock, ret, chat, chatMessages>>

\* recalculateAllAccountBalances: the next account of the list, or the end
bulkUploadRecalculate(r) ==
  /\ r \in 1..Len(runs)
  /\ runs[r].op = "bulkUpload"
  /\ runs[r].pc = "recalculateAll"
  /\ runs' = [runs EXCEPT ![r] =
                IF runs[r].account < Len(accounts)
                THEN [@ EXCEPT !.account = @ + 1,
                               !.accountId = accounts[runs[r].account + 1].id,
                               !.pc = "calculate", !.after = "recalculateAll"]
                ELSE [@ EXCEPT !.pc = "done"]]
  /\ UNCHANGED <<receiptItems, transactions, accounts, clock, ret, chat, chatMessages>>

\* res.json(results): the request is over and its locals are gone
uploadRespond(r) ==
  /\ r \in 1..Len(runs)
  /\ runs[r].op \in {"accountUpload", "bulkUpload"}
  /\ runs[r].pc = "done"
  /\ runs' = SubSeq(runs, 1, r - 1) \o SubSeq(runs, r + 1, Len(runs))
  /\ UNCHANGED <<receiptItems, transactions, accounts, clock, ret, chat, chatMessages>>

\* createReceiptItem called for a single line item
createReceiptItemRequest(insertItem, outcome) ==
  IF ForeignKeyHolds(insertItem.transactionId)
  THEN ReceiptItemsTableHasRoom /\ createReceiptItem(insertItem, outcome, 1)
  ELSE /\ ret = NoRet
       /\ ret' = [op |-> "createReceiptItem", exception |-> TRUE,
                  transactionId |-> insertItem.transactionId]
       /\ UNCHANGED <<receiptItems, transactions, accounts, clock, chat, chatMessages, runs>>

UploadedItems == <<[itemDescription |-> Bread, itemAmount |-> 1299]>>

InitUploads ==
  /\ receiptItems = <<>>
  /\ transactions = TransactionSeed
  /\ accounts = AccountSeedWithBalance
  /\ clock = 3
  /\ ret = NoRet
  /\ chat = IdleChat
  /\ chatMessages = <<>>
  /\ runs = <<>>

NextUploads ==
  \/ \E accountId \in {1, 9} : accountUploadRequest(accountId, UploadedItems)
  \/ \E receiptData \in BulkReceiptData :
       bulkUploadRequest(receiptData.transactionRef = VisitDescription, receiptData)
  \/ \E r \in 1..MaxUploads : createTransactionInsert(r, [threw |-> FALSE, embedding |-> <<1, 1>>])
  \/ \E r \in 1..MaxUploads : uploadTransactionRejected(r)
  \/ \E r \in 1..MaxUploads : createTransactionCalculate(r)
  \/ \E r \in 1..MaxUploads : createTransactionUpdate(r)
  \/ \E r \in 1..MaxUploads : accountUploadItem(r, [threw |-> FALSE, embedding |-> <<1, 1>>])
  \/ \E r \in 1..MaxUploads : bulkUploadItem(r, [threw |-> FALSE, embedding |-> <<1, 1>>])
  \/ \E r \in 1..MaxUploads : uploadFinish(r)
  \/ \E r \in 1..MaxUploads : bulkUploadRecalculate(r)
  \/ \E r \in 1..MaxUploads : uploadRespond(r)
  \/ \E transactionId \in {1, 4} :
       createReceiptItemRequest([transactionId |-> transactionId, itemDescription |-> Eggs,
                                 itemAmount |-> 350],
                                [threw |-> FALSE, embedding |-> <<3, 2>>])
  \/ Return

SpecUploads == InitUploads /\ [][NextUploads]_vars

\* C26: every stored receipt item's transactionId is the id of exactly one
\* stored transaction, after any sequence of bulk uploads, account uploads
\* and createReceiptItem calls
Thm_C26_NoDanglingReceiptItem ==
  \A k \in 1..Len(receiptItems) :
    Cardinality({t \in 1..Len(transactions) :
                   transactions[t].id = receiptItems[k].transactionId}) = 1

\* a bulk upload whose line item named transaction 4, which does not exist,
\* has ended with the error recorded, next to an item that was stored
Wit_C26_DanglingItemRejected ==
  \E r \in 1..Len(runs) :
    /\ runs[r].op = "bulkUpload"
    /\ runs[r].pc = "done"
    /\ runs[r].errors = 1
    /\ runs[r].id = NoId
    /\ Len(receiptItems) > 0
    /\ \A t \in 1..Len(transactions) : transactions[t].id # 4

(***************************************************************************)
(* Questions that name an account: what they are dispatched as, and what   *)
(* the request leaves in the chat history.                                 *)
(***************************************************************************)
SearchOperations ==
  {"searchReceiptItemsBySemantic", "searchTransactionsBySemantic",
   "getLatestReceiptFromStore"}

\* a request is in flight whose descriptor came back with an account name
NamesAnAccount ==
  /\ chat.pc \notin {"idle", "clear"}
  /\ Len(chat.parsed.accountName) > 0

\* C28: whenever the parsed descriptor carries an account name, the query is
\* handled as a 'transactions' query whatever queryType, searchType and
\* isLatest the parser returned: none of searchReceiptItemsBySemantic,
\* searchTransactionsBySemantic, getLatestReceiptFromStore is ever called,
\* and once the first switch is passed getTransactions is the call made.
Thm_C28_AccountNameMeansTransactions ==
  NamesAnAccount =>
    /\ chat.query.queryType = "transactions"
    /\ \A k \in 1..Len(chat.dbQueries) : chat.dbQueries[k] \notin SearchOperations
    /\ chat.pc \in {"respond", "save", "reply"} =>
         /\ chat.dbQueries = <<"getTransactions">>
         /\ chat.response \in {"none", "transactions"}
         /\ chat.receipts = <<>>

\* "latest milk purchase at the store" parsed with an account name: the
\* account is found and its transactions are listed
Wit_C28_LatestStoreSearchWithAccount ==
  /\ NamesAnAccount
  /\ chat.parsed.queryType = "semantic_search"
  /\ chat.parsed.searchType = "store"
  /\ chat.parsed.isLatest
  /\ chat.parsed.searchTerm = milk
  /\ chat.targetAccountId # NoId
  /\ chat.pc = "reply"
  /\ chat.dbQueries = <<"getTransactions">>
  /\ chat.response = "transactions"

\* the step on which a request for a non-clear message answers without an
\* error; the one error exit of a request is a storage call of the first
\* switch that throws
RespondsWithoutError ==
  /\ chat.pc \notin {"idle", "clear", "dispatch"}
  /\ chat'.pc = "idle"

\* C30: a request for a non-clear message that answers without an error has
\* stored exactly two chat messages, the user's message and then the reply,
\* on every path: the normal answer, account not found, ambiguous account.
Thm_C30_UserMessageThenReply ==
  [][RespondsWithoutError =>
       /\ chat.saved = <<TRUE>>
       /\ chatMessages' = Append(chatMessages, [isUser |-> FALSE])
       /\ Len(chatMessages) >= 1
       /\ chatMessages[Len(chatMessages)] = [isUser |-> TRUE]]_vars

\* no account exists, so the request that answered asked back "account not
\* found"; the history holds its two messages
Wit_C30_NotFoundLeftTwoMessages ==
  /\ accounts = <<>>
  /\ chat = IdleChat
  /\ chatMessages = <<[isUser |-> TRUE], [isUser |-> FALSE]>>

\* an ambiguous name: the user message is stored and the question back is
\* about to be
Reach_AmbiguousReplyPending ==
  /\ chat.pc = "clarifyReply"
  /\ chat.response = "accountAmbiguous"
  /\ chat.saved = <<TRUE>>
  /\ chatMessages[Len(chatMessages)] = [isUser |-> TRUE]

\* an account found: the user message is stored and the answer is about to be
Reach_NormalReplyPending ==
  /\ chat.pc = "reply"
  /\ chat.targetAccountId # NoId
  /\ chat.saved = <<TRUE>>
  /\ chatMessages[Len(chatMessages)] = [isUser |-> TRUE]

====
